---- MODULE Spec2Model ----
(***************************************************************************)
(* Request orchestration of electron/ProcessingHelper.ts: the Gemini model *)
(* table, model selection, image shaping and the retry loop of             *)
(* makeGeminiRequest, run by the primary and the extra (debug) flow.       *)
(***************************************************************************)
EXTENDS Integers, Sequences, FiniteSets, TLC

(* ------------------------------ bounds --------------------------------- *)

\* maxRetries of an invocation is drawn from 1..MaxRetriesBound
MaxRetriesBound == 3

\* largest number of screenshots a caller hands to the shaper
MaxRawImages == 52

\* maxRetries of the invocations explored for the backoff delays
DeepRetries == 5

\* entries of the longest solution list handed to the prompt builder
MaxPromptSolutions == 4

\* pieces of the longest model response explored
MaxResponseLength == 4

\* calls of storeSolutionAttempt explored after start-up
MaxRecords == 11

\* calls of processScreenshots explored
MaxRuns == 4

(* ------------------------- capability registry ------------------------- *)

Flash25 == "gemini-2.5-flash"

Pro25 == "gemini-2.5-pro"

Pro15 == "gemini-1.5-pro"

Flash20 == "gemini-2.0-flash"

ModelNames == {Flash25, Pro25, Pro15, Flash20}

\* a model name that has no entry in the table
UnregisteredName == "gemini-1.5-flash"

RequestedNames == ModelNames \cup {UnregisteredName}

\* temperature is kept in hundredths (0.2 = 20)
RegisteredProfiles ==
  [m \in ModelNames |->
     CASE m = Flash25 -> [name |-> Flash25, maxInputTokens |-> 1000000,
                          maxOutputTokens |-> 8192, imageLimit |-> 16,
                          isFlash |-> TRUE, temperature |-> 20,
                          contextWindow |-> 1000000]
       [] m = Pro25   -> [name |-> Pro25, maxInputTokens |-> 2000000,
                          maxOutputTokens |-> 10000, imageLimit |-> 50,
                          isFlash |-> FALSE, temperature |-> 20,
                          contextWindow |-> 2000000]
       [] m = Pro15   -> [name |-> Pro15, maxInputTokens |-> 2000000,
                          maxOutputTokens |-> 8192, imageLimit |-> 50,
                          isFlash |-> FALSE, temperature |-> 20,
                          contextWindow |-> 2000000]
       [] m = Flash20 -> [name |-> Flash20, maxInputTokens |-> 1000000,
                          maxOutputTokens |-> 8192, imageLimit |-> 16,
                          isFlash |-> TRUE, temperature |-> 20,
                          contextWindow |-> 1000000]]

\* the output-token floor of the retry loop
TokenFloor == 2048

\* maxRetries: number = 3
DefaultMaxRetries == 3

Flows == {"primary", "extra"}

VARIABLES
  GEMINI_MODEL_CONFIGS,  \* the live model table (objects shared by reference)
  inv,                   \* per flow: the makeGeminiRequest invocation
  aborted,               \* per flow: the AbortSignal of the flow was triggered
  shaped,                \* the last call of optimizeImagesForGemini
  apiProvider,           \* config.apiProvider
  flow,                  \* per flow: where its run of processScreenshots is
  surfaced,              \* what the last finished run reported
  abortController,       \* per flow: the AbortController field of the class
  problemInfo,           \* deps.getProblemInfo(): "null" or "set"
  selected,              \* the last call of getGeminiModelConfig
  previousSolutions,     \* this.previousSolutions, a JavaScript value
  debugFile,             \* debug_solutions.json in the user data directory
  now,                   \* Date.now()
  lastOp,                \* the last call on the solution store and its outcome
  session,               \* what the instance loaded and was asked to store
  view,                  \* deps.getView(): "queue" or "solutions"
  runs,                  \* the calls of processScreenshots under way
  controllerField,       \* per flow: the run whose controller the field holds
  started,               \* calls of processScreenshots so far
  parse,                 \* a model response and the code taken from it
  speech,                \* the speech handlers' isListening, the renderer, the last reply
  configFile,            \* config.json in the user data directory
  keyCall                \* the API key entered and the last ConfigHelper call on it

flowVars == <<apiProvider, flow, surfaced, abortController, problemInfo>>

executorVars == <<GEMINI_MODEL_CONFIGS, inv, aborted, shaped>>

storeVars == <<previousSolutions, debugFile, now, lastOp, session>>

runVars == <<view, runs, controllerField, started>>

settingsVars == <<speech, configFile, keyCall>>

componentVars == <<selected, storeVars, runVars, parse, settingsVars>>

vars == <<GEMINI_MODEL_CONFIGS, inv, aborted, shaped, apiProvider, flow,
          surfaced, abortController, problemInfo, selected, previousSolutions,
          debugFile, now, lastOp, session, view, runs, controllerField, started,
          parse, speech, configFile, keyCall>>

(* ------------------------------ helpers -------------------------------- *)

Min(a, b) == IF a < b THEN a ELSE b

Max(a, b) == IF a > b THEN a ELSE b

RECURSIVE Pow2(_)
Pow2(n) == IF n <= 0 THEN 1 ELSE 2 * Pow2(n - 1)

\* Math.floor(x * 0.5)
HalfFloor(x) == x \div 2

(* ------------------------------ selector ------------------------------- *)

\* The table entry a name resolves to (line 205): the entry itself, or the
\* gemini-2.5-pro entry when the name is not registered.
LookupConfig(modelName) == IF modelName \in ModelNames THEN modelName ELSE Pro25

\* variant: the upgrade for too many images does not look at the
\* gemini-2.5-pro ceiling
getGeminiModelConfigAnyCount(configs, modelName, imageCount, isDebug) ==
  LET config == LookupConfig(modelName) IN
  IF isDebug /\ imageCount > 5 /\ configs[config].isFlash
    THEN Pro25
  ELSE IF imageCount > configs[config].imageLimit
    THEN Pro25
  ELSE config

\* Returns the key of the table entry the code returns a reference to.
getGeminiModelConfig(configs, modelName, imageCount, isDebug) ==
  LET config == LookupConfig(modelName) IN
  IF isDebug /\ imageCount > 5 /\ configs[config].isFlash
    THEN Pro25
  ELSE IF imageCount > configs[config].imageLimit
          /\ imageCount <= configs[Pro25].imageLimit
    THEN Pro25
  ELSE config

(* ------------------------------- shaper -------------------------------- *)

\* variant: one image fewer than the ceiling is kept
SliceCountBelowLimit(len, imageLimit) ==
  IF len > imageLimit THEN imageLimit - 1 ELSE len

SliceCount(len, imageLimit) == IF len > imageLimit THEN imageLimit ELSE len

optimizeImagesForGemini(imageDataList, modelConfig) ==
  SubSeq(imageDataList, 1, SliceCount(Len(imageDataList), modelConfig.imageLimit))

(* --------------------------- provider errors --------------------------- *)

\* An error thrown by axios.post, reduced to what the code inspects:
\*   status   error.response?.status (0 when there is no response)
\*   apiWords the words of error.response.data.error.message the code tests
\*   code     error.code
\*   msgWords the phrases of error.message the code tests
\*   cancel   axios.isCancel(error)
Err(status, apiWords, code, msgWords, cancel) ==
  [status |-> status, apiWords |-> apiWords, code |-> code,
   msgWords |-> msgWords, cancel |-> cancel]

ErrToken == Err(400, {"token"}, "ERR_BAD_REQUEST", {}, FALSE)

ErrImage == Err(400, {"image"}, "ERR_BAD_REQUEST", {}, FALSE)

ErrImageLimit == Err(400, {"image", "limit"}, "ERR_BAD_REQUEST", {}, FALSE)

ErrBadRequest == Err(400, {}, "ERR_BAD_REQUEST", {}, FALSE)

ErrConnReset == Err(0, {}, "ECONNRESET", {}, FALSE)

ErrTimeout == Err(0, {}, "ECONNABORTED", {"timeout"}, FALSE)

ErrUnauthorized == Err(401, {}, "ERR_BAD_REQUEST", {}, FALSE)

ErrRateLimit == Err(429, {}, "ERR_BAD_REQUEST", {}, FALSE)

\* the CanceledError axios rejects with when the signal is aborted
ErrCanceled == Err(0, {}, "ERR_CANCELED", {"canceled"}, TRUE)

\* new Error('All retry attempts failed')
ErrAllRetriesFailed == Err(0, {}, "", {"All retry attempts failed"}, FALSE)

NoError == Err(0, {}, "", {}, FALSE)

\* the failures a provider call can end in while the signal is not aborted
ProviderErrors == {ErrToken, ErrImage, ErrImageLimit, ErrBadRequest,
                   ErrConnReset, ErrTimeout, ErrUnauthorized, ErrRateLimit}

IsTokenLimitError(e) ==
  e.status = 400 /\ ("token" \in e.apiWords \/ "limit" \in e.apiWords)

IsImageLimitError(e) ==
  e.status = 400 /\ ("image" \in e.apiWords \/ "media" \in e.apiWords)

\* variant: only the error code is looked at
IsNetworkErrorCodeOnly(e) == e.code = "ECONNRESET" \/ e.code = "ETIMEDOUT"

IsNetworkError(e) ==
  \/ e.code = "ECONNRESET"
  \/ e.code = "ETIMEDOUT"
  \/ "timeout" \in e.msgWords
  \/ "socket hang up" \in e.msgWords

(* ------------------------------ messages ------------------------------- *)

TextPart == [kind |-> "text", data |-> 0]

ImagePart(d) == [kind |-> "inlineData", data |-> d]

IsImagePart(p) == p.kind = "inlineData"

IsTextPart(p) == p.kind # "inlineData"

\* messages[0].parts as the callers build it: the prompt, then the images
BuildParts(images) == <<TextPart>> \o [k \in 1..Len(images) |-> ImagePart(images[k])]

\* variant: every part is counted, the prompt too
ImageCountOfAllParts(parts) == Len(parts)

\* messages[0]?.parts?.filter(part => part.inlineData)?.length || 0
ImageCountOf(parts) == Len(SelectSeq(parts, IsImagePart))

(* ------------------------- makeGeminiRequest --------------------------- *)

NoRequest == [model |-> "", maxOutputTokens |-> 0, images |-> <<>>]

\* No invocation: nothing was called yet on this flow.
IdleInvocation ==
  [pc |-> "idle", currentModel |-> "", attempt |-> 0, maxRetries |-> 0,
   parts |-> <<>>, calls |-> 0, sent |-> NoRequest, delay |-> 0,
   thrown |-> NoError, lastError |-> NoError, lastAction |-> ""]

\* The invocation has returned or thrown: its locals are gone; what stays
\* is what the caller can observe (the error) and the counts of the run.
Finished(i, pc, thrown) ==
  [IdleInvocation EXCEPT !.pc = pc, !.thrown = thrown,
                         !.attempt = i.attempt, !.calls = i.calls,
                         !.maxRetries = i.maxRetries,
                         !.lastError = i.lastError,
                         !.lastAction = i.lastAction]

\* the body axios.post sends (lines 270-305), reduced to model, budget, images
RequestOf(configs, currentModel, parts) ==
  [model |-> currentModel,
   maxOutputTokens |-> configs[currentModel].maxOutputTokens,
   images |-> SelectSeq(parts, IsImagePart)]

\* variant: the loop bound taken inclusively
LoopContinuesInclusive(attempt, maxRetries) == attempt <= maxRetries

\* while (attempt < maxRetries)
LoopContinues(attempt, maxRetries) == attempt < maxRetries

\* variant: every failure that reaches the check is thrown
IsLastAttemptAlways(attempt, maxRetries) == attempt >= 1

\* if (attempt >= maxRetries) throw error
IsLastAttempt(attempt, maxRetries) == attempt >= maxRetries

\* variant: halving without the floor
ReducedTokensNoFloor(maxOutputTokens) == HalfFloor(maxOutputTokens)

\* Math.max(2048, Math.floor(maxOutputTokens * 0.5))
ReducedTokens(maxOutputTokens) == Max(TokenFloor, HalfFloor(maxOutputTokens))

\* Math.max(1, Math.floor(currentImages.length * 0.5))
ReducedCount(len) == Max(1, HalfFloor(len))

\* [...textParts, ...imageParts.slice(0, reducedCount)]
ReducedParts(parts) ==
  LET imageParts == SelectSeq(parts, IsImagePart) IN
  SelectSeq(parts, IsTextPart)
    \o SubSeq(imageParts, 1, ReducedCount(Len(imageParts)))

\* variant: the delay without the cap
BackoffDelayUncapped(attempt) == 1000 * Pow2(attempt - 1)

\* Math.min(1000 * Math.pow(2, attempt - 1), 5000)
BackoffDelay(attempt) == Min(1000 * Pow2(attempt - 1), 5000)

\* The branch of the catch block (lines 308-373) taken for error e, with
\* attempt already incremented.
Recovery(e, attempt, maxRetries, currentModel, configs, parts) ==
  IF IsTokenLimitError(e) /\ configs[currentModel].maxOutputTokens > TokenFloor
    THEN "halveTokens"
  ELSE IF IsTokenLimitError(e) /\ currentModel # Flash25
          /\ attempt < maxRetries
    THEN "tokenFallback"
  ELSE IF IsImageLimitError(e) /\ ImageCountOf(parts) > 1
    THEN "halveImages"
  ELSE IF IsNetworkError(e) /\ attempt < maxRetries /\ currentModel = Pro25
    THEN "networkToFlash"
  ELSE IF IsNetworkError(e) /\ attempt < maxRetries /\ currentModel = Flash25
    THEN "networkToBackup"
  ELSE IF IsLastAttempt(attempt, maxRetries)
    THEN "throw"
  ELSE "backoff"

\* variant: the loop waits again instead of sending or leaving
LoopHeadWaits(i, configs) == [i EXCEPT !.pc = "backoff"]

\* The head of the loop: the next axios.post, or the throw after the loop.
LoopHead(i, configs) ==
  IF LoopContinues(i.attempt, i.maxRetries)
    THEN [i EXCEPT !.pc = "inflight", !.calls = @ + 1, !.delay = 0,
                   !.sent = RequestOf(configs, i.currentModel, i.parts)]
    ELSE Finished(i, "threw", ErrAllRetriesFailed)

\* variant: the budget in the table is left as it is
ConfigsAfterUnchanged(action, currentModel, configs) == configs

\* The model table after the catch block ran.
ConfigsAfter(action, currentModel, configs) ==
  IF action = "halveTokens"
    THEN [configs EXCEPT ![currentModel].maxOutputTokens = ReducedTokens(@)]
    ELSE configs

\* variant: the token-limit fallback goes to the backup model
ModelAfterBackupFallback(action, currentModel) ==
  CASE action = "tokenFallback"   -> Pro15
    [] action = "networkToFlash"  -> Flash25
    [] action = "networkToBackup" -> Pro15
    [] OTHER                      -> currentModel

\* currentModel after the catch block ran.
ModelAfter(action, currentModel) ==
  CASE action = "tokenFallback"   -> Flash25
    [] action = "networkToFlash"  -> Flash25
    [] action = "networkToBackup" -> Pro15
    [] OTHER                      -> currentModel

\* Entry of makeGeminiRequest (lines 257-262) up to the first axios.post.
EnterRequest(configs, modelName, parts, maxRetries, isDebug) ==
  LoopHead([IdleInvocation EXCEPT
              !.currentModel =
                 getGeminiModelConfig(configs, modelName, ImageCountOf(parts), isDebug),
              !.maxRetries = maxRetries,
              !.parts = parts],
           configs)

\* The catch block for error e, then the loop head when it continues.
AfterFailure(i, e, configs) ==
  LET attempt == i.attempt + 1
      action  == Recovery(e, attempt, i.maxRetries, i.currentModel, configs, i.parts)
      configs2 == ConfigsAfter(action, i.currentModel, configs)
      j == [i EXCEPT !.attempt = attempt, !.lastError = e,
                     !.lastAction = action,
                     !.currentModel = ModelAfter(action, @),
                     !.parts = IF action = "halveImages" THEN ReducedParts(@) ELSE @]
  IN  CASE action = "throw"   -> Finished(j, "threw", e)
        [] action = "backoff" -> [j EXCEPT !.pc = "backoff",
                                           !.delay = BackoffDelay(attempt)]
        [] OTHER              -> LoopHead(j, configs2)

(* ------------------------------- inputs -------------------------------- *)

Ascending(n) == [k \in 1..n |-> k]

Descending(n) == [k \in 1..n |-> n + 1 - k]

\* screenshot lists handed to the shaper alone
ShaperImageLists ==
  {Ascending(n) : n \in 0..MaxRawImages} \cup {Descending(n) : n \in 0..MaxRawImages}

\* screenshot counts of the requests the retry loop is run on
RequestImageCounts == {0, 1, 3, 17, MaxRawImages}

RequestImageLists == {Descending(n) : n \in RequestImageCounts}

NoShaping == [input |-> <<>>, callerList |-> <<>>, model |-> "", output |-> <<>>]

\* One call of optimizeImagesForGemini, with the caller's list after it.
\* The code copies the list ([...imageDataList]) and only slices the copy.
ShapingOf(imageDataList, configs, model) ==
  [input |-> imageDataList,
   callerList |-> imageDataList,
   model |-> model,
   output |-> optimizeImagesForGemini(imageDataList, configs[model])]

(* -------------------------------- flows -------------------------------- *)

Providers == {"openai", "gemini", "anthropic"}

IdleFlow == [stage |-> "idle", via |-> "none"]

\* flow: the flow of the run; kind: "none", "success" or "failure"; error:
\* the result's error text; event: the event sent to the renderer;
\* canceled: the run ended on an error for which axios.isCancel holds
\* events: the terminal events of the run, in the order they were sent
NothingSurfaced ==
  [flow |-> "none", kind |-> "none", error |-> "", event |-> "", canceled |-> FALSE,
   events |-> <<>>]

(* ------------------------- debug solution store ------------------------ *)

\* private maxStoredSolutions = 10
maxStoredSolutions == 10

\* limit: number = 5
DefaultLimit == 5

ProblemTwoSum == "Two Sum"

ProblemTwoSumII == "Two Sum II"

Problems == {ProblemTwoSum, ProblemTwoSumII}

CodeAttempt == "<code block of a debug answer>"

CodeWorking == "<code of a working solution>"

CodePlaceholder == "// Current code being debugged (extracted from screenshots)"

MsgDebugSession == "Debug session - improving previous solution"

\* Date.now().toString(): the decimal digits
RECURSIVE Digits(_)
Digits(n) == IF n < 10 THEN <<n>> ELSE Append(Digits(n \div 10), n % 10)

\* The attempt the debug helper stores (lines 1896-1905).
DebugAttempt(problem) ==
  [code |-> CodeAttempt, success |-> FALSE, failed_test_cases |-> <<"1">>,
   error_message |-> MsgDebugSession, language |-> "python",
   problem_statement |-> problem]

\* A solution that passed; the optional fields are not there.
WorkingSolution(problem) ==
  [code |-> CodeWorking, success |-> TRUE, language |-> "python",
   problem_statement |-> problem]

SolutionInputs ==
  {DebugAttempt(p) : p \in Problems} \cup {WorkingSolution(ProblemTwoSum)}

\* { ...solution, id: Date.now().toString(), timestamp: Date.now() }
NewSolution(solution, time) ==
  [k \in DOMAIN solution \cup {"id", "timestamp"} |->
     IF k = "id" THEN Digits(time)
     ELSE IF k = "timestamp" THEN time
     ELSE solution[k]]

\* JavaScript values the field previousSolutions can hold
JsArray(items) == [type |-> "array", items |-> items]

\* the object {}
JsObject == [type |-> "object", items |-> <<>>]

JsNull == [type |-> "null", items |-> <<>>]

\* the JSON type a field of an entry is written as
JsonTypeOf(key) ==
  CASE key = "timestamp" -> "number"
    [] key = "success" -> "boolean"
    [] key = "failed_test_cases" -> "array"
    [] OTHER -> "string"

\* JSON.stringify of one entry: its own keys, each value in its JSON type
JsonObjectOf(entry) ==
  [k \in DOMAIN entry |-> [type |-> JsonTypeOf(k), value |-> entry[k]]]

\* JSON.stringify(this.previousSolutions, null, 2)
JSONstringify(value) ==
  IF value.type = "array"
    THEN [type |-> "array",
          items |-> [i \in 1..Len(value.items) |-> JsonObjectOf(value.items[i])]]
    ELSE [type |-> value.type, items |-> <<>>]

\* variant: the list comes back in the opposite order
JSONparseReversed(json) ==
  IF json.type = "array"
    THEN JsArray([i \in 1..Len(json.items) |->
                    LET obj == json.items[Len(json.items) + 1 - i]
                    IN  [k \in DOMAIN obj |-> obj[k].value]])
    ELSE [type |-> json.type, items |-> <<>>]

\* JSON.parse(data)
JSONparse(json) ==
  IF json.type = "array"
    THEN JsArray([i \in 1..Len(json.items) |->
                    LET obj == json.items[i]
                    IN  [k \in DOMAIN obj |-> obj[k].value]])
    ELSE [type |-> json.type, items |-> <<>>]

\* contents of debug_solutions.json
FileAbsent == [kind |-> "absent", parseable |-> FALSE, json |-> JsNull]

FileGarbage == [kind |-> "text", parseable |-> FALSE, json |-> JsNull]

FileOf(json) == [kind |-> "text", parseable |-> TRUE, json |-> json]

\* a file is a serialized list of entries
IsEntryList(file) == file.parseable /\ file.json.type = "array"

\* loadPreviousSolutions (lines 382-394): the value of the field afterwards.
\* JSON.parse of broken text throws, and so does .length of null; both end
\* in the catch block.
loadPreviousSolutions(file, current) ==
  IF file.kind = "absent" THEN current
  ELSE IF ~file.parseable THEN JsArray(<<>>)
  ELSE LET parsed == JSONparse(file.json)
       IN  IF parsed.type = "null" THEN JsArray(<<>>) ELSE parsed

\* writeFileSync (line 402): the content of the file afterwards
savePreviousSolutions(file, store, outcome) ==
  IF outcome = "written" THEN FileOf(JSONstringify(store)) ELSE file

\* variant: a failed write is thrown on to the caller
SaveRaisesOnFailure(outcome) == outcome = "failed"

\* The catch block of savePreviousSolutions (lines 403-405) only warns.
SaveRaises(outcome) == FALSE

\* this.previousSolutions.unshift(newSolution)
Unshift(items, entry) == <<entry>> \o items

\* variant: the entries at the end are kept
KeepOldest(items) ==
  IF Len(items) > maxStoredSolutions
    THEN SubSeq(items, Len(items) - maxStoredSolutions + 1, Len(items))
    ELSE items

\* slice(0, this.maxStoredSolutions) when the list is over the cap
KeepNewest(items) ==
  IF Len(items) > maxStoredSolutions
    THEN SubSeq(items, 1, maxStoredSolutions)
    ELSE items

\* variant: statement.includes(problemStatement)
ProblemMatchesBySubstring(statement, problemStatement) ==
  \/ statement = problemStatement
  \/ statement = ProblemTwoSumII /\ problemStatement = ProblemTwoSum

\* sol.problem_statement === problemStatement
ProblemMatches(statement, problemStatement) == statement = problemStatement

\* getPreviousSolutions (lines 431-435): filter, then slice(0, limit)
getPreviousSolutions(items, problemStatement, limit) ==
  LET Matches(sol) == ProblemMatches(sol.problem_statement, problemStatement)
      matching == SelectSeq(items, Matches)
  IN  SubSeq(matching, 1, Min(limit, Len(matching)))

\* What analyzeTestCaseFailures returns for the analysis text the debug
\* helper builds (lines 1611-1612): no numbered test case is in it, the
\* word "fail" is, so the result is the one generic failure (lines 493-504).
GenericFailures ==
  <<[test_case_id |-> "1", expected |-> "Correct output",
     actual |-> "Incorrect output", error_type |-> "logic"]>>

IsWorking(sol) == sol.success

IsFailed(sol) == ~sol.success

\* a section of the prompt text: its heading, the code block under it and
\* the lines under it
Section(name, code, items) == [name |-> name, code |-> code, items |-> items]

\* variant: the section is added whatever the data
SectionAlways(present, section) == <<section>>

\* if (present) prompt += section
SectionIf(present, section) == IF present THEN <<section>> ELSE <<>>

\* the line of a failed test case (lines 541-545)
FailureLine(failure) ==
  [test_case_id |-> failure.test_case_id, expected |-> failure.expected,
   actual |-> failure.actual, error_type |-> failure.error_type]

\* the line of a recent failed attempt (lines 557-559)
AttemptLine(attempt) ==
  [error |-> IF "error_message" \in DOMAIN attempt
               THEN attempt.error_message ELSE "Unknown error",
   tests |-> IF "failed_test_cases" \in DOMAIN attempt
               THEN attempt.failed_test_cases ELSE <<"Not specified">>]

\* the headings of the structure the response must follow (lines 566-590)
ResponseHeadings ==
  <<"Issues Identified", "Code Comparison Analysis", "Specific Test Case Fixes",
    "Step-by-Step Fix Plan", "Improved Solution", "Why This Fix Works">>

\* generateEnhancedDebugPrompt (lines 508-595): the text as the sequence of
\* its sections, in the order they are appended.
generateEnhancedDebugPrompt(problemStatement, language, currentCode, solutions, failedTestCases) ==
  LET working == SelectSeq(solutions, IsWorking)
      hasWorking == Len(working) > 0
      workingCode == IF hasWorking THEN working[1].code ELSE ""
      failures == SelectSeq(solutions, IsFailed)
      recentFailures == SubSeq(failures, 1, Min(2, Len(failures)))
  IN  <<Section("PROBLEM", "", <<problemStatement, language>>),
        Section("CURRENT CODE", currentCode, <<>>)>>
      \o SectionIf(hasWorking,
                   Section("PREVIOUS WORKING SOLUTION", workingCode, <<>>))
      \o SectionIf(Len(failedTestCases) > 0,
                   Section("FAILED TEST CASES", "",
                           [i \in 1..Len(failedTestCases) |->
                              FailureLine(failedTestCases[i])]))
      \o SectionIf(Len(solutions) > 0 /\ Len(recentFailures) > 0,
                   Section("RECENT FAILED ATTEMPTS", "",
                           [i \in 1..Len(recentFailures) |->
                              AttemptLine(recentFailures[i])]))
      \o <<Section("RESPONSE STRUCTURE",
                   IF hasWorking THEN "previous working solution"
                   ELSE "current code structure",
                   ResponseHeadings)>>

\* the sections of a prompt with the given heading
SectionsNamed(prompt, name) ==
  {i \in 1..Len(prompt) : prompt[i].name = name}

\* the code texts a prompt holds
CodesIn(prompt) ==
  {prompt[i].code : i \in SectionsNamed(prompt, "CURRENT CODE")
                          \cup SectionsNamed(prompt, "PREVIOUS WORKING SOLUTION")}

\* the record of a call on the store
StoreOp(op, raised, write, problem, limit, result, prompt, failures) ==
  [op |-> op, raised |-> raised, write |-> write, problem |-> problem,
   limit |-> limit, result |-> result, prompt |-> prompt, failures |-> failures]

LoadOp == StoreOp("load", FALSE, "none", "", 0, <<>>, <<>>, <<>>)

\* entries an earlier session left in the file, newest first
StaleEntries(n) ==
  [k \in 1..n |-> NewSolution(DebugAttempt(ProblemTwoSum), n + 1 - k)]

\* one entry more than the cap
StaleCount == maxStoredSolutions + 1

\* what the file can hold when the application starts
DurableContents ==
  {FileAbsent, FileGarbage, FileOf(JSONstringify(JsNull)),
   FileOf(JSONstringify(JsObject)),
   FileOf(JSONstringify(JsArray(StaleEntries(2)))),
   FileOf(JSONstringify(JsArray(StaleEntries(StaleCount))))}

\* no call of getGeminiModelConfig yet
NoSelection == [modelName |-> "", imageCount |-> 0, isDebug |-> FALSE, config |-> ""]

(* ------------------------------- actions ------------------------------- *)

(* --------------------------- response parser -------------------------- *)

\* The pieces a response text is made of here; a text is a sequence of
\* pieces, adjacent pieces are adjacent in the string.
\* Fence stands for the three backquotes that open or close a code block.
Fence == "<fence>"
Bold == "**"
Newline == "\n"
Whitespace == {" ", Newline}
WordPieces == {"def", "solve", "Complexity"}
Pieces == {Fence, Bold} \cup Whitespace \cup WordPieces

\* String.prototype.toLowerCase on a piece
toLowerCase(piece) ==
  IF piece = "Complexity" THEN "complexity"
  ELSE IF piece = "Thought" THEN "thought"
  ELSE piece

\* text.includes(word) for a word that is one piece
includes(text, word) == \E i \in 1..Len(text) : text[i] = word

\* text.toLowerCase().includes(word)
includesLowered(text, word) == \E i \in 1..Len(text) : toLowerCase(text[i]) = word

\* includes('def ') || includes('class ') || includes('function '): of the
\* three markers the pieces can spell 'def ' only
HasCodeMarker(text) ==
  \E i \in 1..(Len(text) - 1) : text[i] = "def" /\ text[i + 1] = " "

\* responseContent.split('\n')
RECURSIVE split(_)
split(text) ==
  IF ~includes(text, Newline) THEN <<text>>
  ELSE LET i == CHOOSE k \in 1..Len(text) :
                   text[k] = Newline /\ \A j \in 1..(k - 1) : text[j] # Newline
       IN  <<SubSeq(text, 1, i - 1)>> \o split(SubSeq(text, i + 1, Len(text)))

\* codeLines.join('\n')
RECURSIVE join(_)
join(lines) ==
  IF Len(lines) = 0 THEN <<>>
  ELSE IF Len(lines) = 1 THEN lines[1]
  ELSE lines[1] \o <<Newline>> \o join(Tail(lines))

\* String.prototype.trim
trim(text) ==
  LET solid == {i \in 1..Len(text) : text[i] \notin Whitespace}
  IN  IF solid = {} THEN <<>>
      ELSE SubSeq(text, CHOOSE i \in solid : \A j \in solid : i <= j,
                        CHOOSE i \in solid : \A j \in solid : j <= i)

\* the last position of the run of pieces of the set that starts right
\* after position from
RunEnd(text, from, set) ==
  CHOOSE k \in from..Len(text) :
    /\ \A j \in (from + 1)..k : text[j] \in set
    /\ k = Len(text) \/ text[k + 1] \notin set

NoMatch == [matched |-> FALSE, group |-> <<>>]

\* responseContent.match(/```(?:\w+)?\s*([\s\S]*?)```/): the first fence,
\* the word and the white space after it, then everything up to the next
\* fence as group 1.
codeMatch(text) ==
  LET fences == {i \in 1..Len(text) : text[i] = Fence}
  IN  IF Cardinality(fences) < 2 THEN NoMatch
      ELSE LET open == CHOOSE i \in fences : \A j \in fences : i <= j
               close == CHOOSE i \in fences \ {open} :
                          \A j \in fences \ {open} : i <= j
               word == RunEnd(text, open, WordPieces)
               space == RunEnd(text, word, Whitespace)
           IN  [matched |-> TRUE, group |-> SubSeq(text, space + 1, close - 1)]

\* the filter of the fallback: !line.startsWith('**') and neither
\* 'complexity' nor 'thought' in the lowered line
IsCodeLine(line) ==
  /\ ~(Len(line) > 0 /\ line[1] = Bold)
  /\ ~includesLowered(line, "complexity")
  /\ ~includesLowered(line, "thought")

\* The code of a response (lines 1477-1492, the same at 2432-2447).
extractCode(responseContent) ==
  LET match == codeMatch(responseContent)
      code == IF match.matched THEN trim(match.group) ELSE <<>>
  IN  IF code = <<>> /\ HasCodeMarker(responseContent)
        THEN LET codeLines == SelectSeq(split(responseContent), IsCodeLine)
             IN  IF Len(codeLines) > 0 THEN trim(join(codeLines)) ELSE code
        ELSE code

\* let extractedCode = "// Debug mode - see analysis below", as a text
DebugPlaceholderCode == <<"// Debug mode - see analysis below">>

\* debugContent.match(/<fence>(?:[a-zA-Z]+)?([\s\S]*?)<fence>/): the first
\* fence, the letters after it, then everything up to the next fence as
\* group 1.
debugCodeMatch(text) ==
  LET fences == {i \in 1..Len(text) : text[i] = Fence}
  IN  IF Cardinality(fences) < 2 THEN NoMatch
      ELSE LET open == CHOOSE i \in fences : \A j \in fences : i <= j
               close == CHOOSE i \in fences \ {open} :
                          \A j \in fences \ {open} : i <= j
               letters == RunEnd(text, open, WordPieces)
           IN  [matched |-> TRUE, group |-> SubSeq(text, letters + 1, close - 1)]

\* The code of a debug response (lines 1866-1870).
extractDebugCode(debugContent) ==
  LET match == debugCodeMatch(debugContent)
  IN  IF match.matched /\ match.group # <<>> THEN trim(match.group)
      ELSE DebugPlaceholderCode

\* variant: the attempt is stored as one that passed
DebugEntryWorking(problem, code) ==
  [code |-> code, success |-> TRUE, failed_test_cases |-> <<"1">>,
   error_message |-> MsgDebugSession, language |-> "python",
   problem_statement |-> problem]

\* the entry the debug helper stores (lines 1897-1904)
DebugEntry(problem, code) ==
  [code |-> code, success |-> FALSE, failed_test_cases |-> <<"1">>,
   error_message |-> MsgDebugSession, language |-> "python",
   problem_statement |-> problem]

\* debug responses: prose only, a block with code, a block of blank lines,
\* an empty block
DebugResponses ==
  {<<"solve">>, <<"solve", Newline, Fence, Newline, "solve", Newline, Fence>>,
   <<Fence, Newline, Fence>>, <<Fence, Fence>>}

\* the responses explored: every text of at most MaxResponseLength pieces
Responses == UNION {[1..n -> Pieces] : n \in 0..MaxResponseLength}

NoResponse == [content |-> <<>>, code |-> <<>>, done |-> FALSE]

(* ------------------------- speech recognition -------------------------- *)

\* the most start, stop and error calls followed in one behaviour
MaxSpeechCalls == 8

\* deps.getMainWindow()
MainWindows == {"null", "window"}

NoReply == [channel |-> "none", success |-> FALSE, error |-> "none"]

\* { success, error } as returned by a speech handler
Reply(channel, success, error) ==
  [channel |-> channel, success |-> success, error |-> error]

\* let isListening = false (line 2792); the renderer recognizes nothing
SpeechIdle ==
  [isListening |-> FALSE, recognizing |-> FALSE, reply |-> NoReply, calls |-> 0]

(* ------------------------------ API keys ------------------------------- *)

\* the longest API key explored, in pieces
MaxKeyLength == 3

\* The pieces an API key is made of here: the two prefixes, a run of 4 and
\* a run of 32 letters and digits, and a blank.
ShortRun == "AIza"
LongRun == "a1b2c3d4e5f6g7h8i9j0k1l2m3n4o5p6"
KeyPieces == {"sk-", "ant-", ShortRun, LongRun, " "}

ApiKeys == UNION {[1..n -> KeyPieces] : n \in 0..MaxKeyLength}

Undefined == "undefined"

\* characters of a piece
PieceLength(piece) ==
  IF piece = "sk-" THEN 3
  ELSE IF piece = "ant-" THEN 4
  ELSE IF piece = ShortRun THEN 4
  ELSE IF piece = LongRun THEN 32
  ELSE 1

\* text.length
RECURSIVE length(_)
length(text) ==
  IF Len(text) = 0 THEN 0 ELSE PieceLength(Head(text)) + length(Tail(text))

\* text.startsWith(prefix)
startsWith(text, prefix) ==
  Len(text) >= Len(prefix) /\ SubSeq(text, 1, Len(prefix)) = prefix

\* /^<prefix>[a-zA-Z0-9]{32,}$/.test(text)
PrefixThenAlnum32(text, prefix) ==
  /\ startsWith(text, prefix)
  /\ LET rest == SubSeq(text, Len(prefix) + 1, Len(text))
     IN  /\ \A i \in 1..Len(rest) : rest[i] \in {ShortRun, LongRun}
         /\ length(rest) >= 32

\* defaultConfig (lines 602-616), the fields that an API key touches
defaultConfig ==
  [apiKey |-> <<>>, apiProvider |-> "gemini", extractionModel |-> "gemini-2.5-pro",
   solutionModel |-> "gemini-2.5-pro", debuggingModel |-> "gemini-2.5-pro"]

\* the default model updateConfig sets when the provider changes
DefaultModel(provider) ==
  IF provider = "openai" THEN "gpt-4o"
  ELSE IF provider = "anthropic" THEN "claude-3-7-sonnet-20250219"
  ELSE "gemini-2.5-pro"

sanitizeModelSelection(model, provider) ==
  IF provider = "openai"
  THEN IF model \in {"gpt-4o", "gpt-4o-mini"} THEN model ELSE "gpt-4o"
  ELSE IF provider = "gemini"
  THEN IF model \in {"gemini-2.5-pro", "gemini-1.5-pro", "gemini-2.0-flash"}
       THEN model ELSE "gemini-2.5-pro"
  ELSE IF provider = "anthropic"
  THEN IF model \in {"claude-3-7-sonnet-20250219", "claude-3-5-sonnet-20241022",
                     "claude-3-opus-20240229"}
       THEN model ELSE "claude-3-7-sonnet-20250219"
  ELSE model

\* the provider updateConfig takes from the key when none is given
\* (lines 779-790): the test for 'sk-' comes first
updateConfigProvider(apiKey) ==
  IF startsWith(trim(apiKey), <<"sk-">>) THEN "openai"
  ELSE IF startsWith(trim(apiKey), <<"sk-", "ant-">>) THEN "anthropic"
  ELSE "gemini"

\* the provider isValidApiKeyFormat takes from the key (lines 855-865)
isValidApiKeyFormatProvider(apiKey) ==
  IF startsWith(trim(apiKey), <<"sk-">>)
  THEN IF startsWith(trim(apiKey), <<"sk-", "ant-">>) THEN "anthropic" ELSE "openai"
  ELSE "gemini"

\* the provider testApiKey takes from the key (lines 933-946)
testApiKeyProvider(apiKey) ==
  IF startsWith(trim(apiKey), <<"sk-">>)
  THEN IF startsWith(trim(apiKey), <<"sk-", "ant-">>) THEN "anthropic" ELSE "openai"
  ELSE "gemini"

\* the format test of isValidApiKeyFormat for a provider (lines 867-878)
FormatValid(apiKey, provider) ==
  IF provider = "openai" THEN PrefixThenAlnum32(trim(apiKey), <<"sk-">>)
  ELSE IF provider = "gemini" THEN length(trim(apiKey)) >= 10
  ELSE IF provider = "anthropic" THEN PrefixThenAlnum32(trim(apiKey), <<"sk-", "ant-">>)
  ELSE FALSE

\* an optional apiKey of an update
NotGiven == [given |-> FALSE, value |-> <<>>]
Given(apiKey) == [given |-> TRUE, value |-> apiKey]

\* updates.apiKey as a condition: given and not the empty string
Truthy(apiKey) == apiKey.given /\ Len(apiKey.value) > 0

\* no call of the ConfigHelper on a key yet
NoKeyCall ==
  [apiKey |-> <<>>, op |-> "none", argument |-> <<>>, given |-> Undefined,
   auto |-> FALSE, provider |-> Undefined, result |-> FALSE]

\* The state after start-up with the given content of the solutions file,
\* the response that will be received and the API key that will be entered.
InitKey(file, response, apiKey) ==
  /\ GEMINI_MODEL_CONFIGS = RegisteredProfiles
  /\ inv = [r \in Flows |-> IdleInvocation]
  /\ aborted = [r \in Flows |-> FALSE]
  /\ shaped = NoShaping
  /\ apiProvider = "gemini"
  /\ flow = [f \in Flows |-> IdleFlow]
  /\ surfaced = NothingSurfaced
  /\ abortController = [f \in Flows |-> "null"]
  /\ problemInfo = "null"
  /\ selected = NoSelection
  /\ debugFile = file
  /\ previousSolutions = loadPreviousSolutions(file, JsArray(<<>>))
  /\ now = StaleCount + 1
  /\ lastOp = LoadOp
  /\ session = [instance |-> 1, loaded |-> file, recorded |-> <<>>]
  /\ view = "queue"
  /\ runs = {}
  /\ controllerField = [f \in Flows |-> 0]
  /\ started = 0
  /\ parse = response
  /\ speech = SpeechIdle
  /\ configFile = defaultConfig
  /\ keyCall = [NoKeyCall EXCEPT !.apiKey = apiKey]

\* The state after start-up with the given content of the solutions file,
\* and the response that will be received.
InitState(file, response) == InitKey(file, response, <<>>)

\* The state after start-up with the given content of the solutions file.
InitWith(file) == InitState(file, NoResponse)

\* No solutions file yet.
Init == InitWith(FileAbsent)

\* A caller selects the model, shapes the images, builds the message and
\* calls makeGeminiRequest with a fresh signal (lines 1036-1067, 1322-1345,
\* 1690-1727).
Call(r, modelName, imageDataList, isDebug, maxRetries) ==
  /\ inv[r].pc \in {"idle", "returned", "threw"}
  /\ LET model == getGeminiModelConfig(GEMINI_MODEL_CONFIGS, modelName,
                                       Len(imageDataList), isDebug)
         shaping == ShapingOf(imageDataList, GEMINI_MODEL_CONFIGS, model)
     IN  /\ inv' = [inv EXCEPT ![r] =
                      EnterRequest(GEMINI_MODEL_CONFIGS, modelName,
                                   BuildParts(shaping.output), maxRetries, isDebug)]
  /\ aborted' = [aborted EXCEPT ![r] = FALSE]
  /\ UNCHANGED <<GEMINI_MODEL_CONFIGS, shaped, componentVars, flowVars>>

\* axios.post resolves: return response (line 307).
Succeed(r) ==
  /\ inv[r].pc = "inflight"
  /\ ~aborted[r]
  /\ inv' = [inv EXCEPT ![r] = Finished(inv[r], "returned", NoError)]
  /\ UNCHANGED <<GEMINI_MODEL_CONFIGS, aborted, shaped, componentVars, flowVars>>

\* axios.post rejects with e: the catch block (lines 308-373).  With the
\* signal aborted the rejection is the CanceledError.
Fail(r, e) ==
  /\ inv[r].pc = "inflight"
  /\ IF aborted[r] THEN e = ErrCanceled ELSE e \in ProviderErrors
  /\ LET action == Recovery(e, inv[r].attempt + 1, inv[r].maxRetries,
                            inv[r].currentModel, GEMINI_MODEL_CONFIGS, inv[r].parts)
     IN  /\ GEMINI_MODEL_CONFIGS' =
               ConfigsAfter(action, inv[r].currentModel, GEMINI_MODEL_CONFIGS)
         /\ inv' = [inv EXCEPT ![r] = AfterFailure(inv[r], e, GEMINI_MODEL_CONFIGS)]
  /\ UNCHANGED <<aborted, shaped, componentVars, flowVars>>

\* The backoff timer fires (line 372) and the loop goes round.
BackoffDone(r) ==
  /\ inv[r].pc = "backoff"
  /\ inv' = [inv EXCEPT ![r] = LoopHead(inv[r], GEMINI_MODEL_CONFIGS)]
  /\ UNCHANGED <<GEMINI_MODEL_CONFIGS, aborted, shaped, componentVars, flowVars>>

\* The caller's AbortController aborts the signal of an invocation in flight.
Abort(r) ==
  /\ inv[r].pc \in {"inflight", "backoff"}
  /\ ~aborted[r]
  /\ aborted' = [aborted EXCEPT ![r] = TRUE]
  /\ UNCHANGED <<GEMINI_MODEL_CONFIGS, inv, shaped, componentVars, flowVars>>

\* A caller shapes a screenshot list for a model (lines 1039, 1693).
Shape(imageDataList, model) ==
  /\ shaped' = ShapingOf(imageDataList, GEMINI_MODEL_CONFIGS, model)
  /\ UNCHANGED <<GEMINI_MODEL_CONFIGS, inv, aborted, flowVars, componentVars>>

\* the flow whose requests run one after the other
Sequential == {"primary"}

Next ==
  \/ \E r \in Sequential, modelName \in RequestedNames,
        imageDataList \in RequestImageLists, isDebug \in BOOLEAN,
        maxRetries \in 1..MaxRetriesBound :
       Call(r, modelName, imageDataList, isDebug, maxRetries)
  \/ \E r \in Sequential : Succeed(r)
  \/ \E r \in Sequential, e \in ProviderErrors \cup {ErrCanceled} : Fail(r, e)
  \/ \E r \in Sequential : BackoffDone(r)
  \/ \E r \in Sequential : Abort(r)

Spec == Init /\ [][Next]_vars

NextShaper ==
  \E imageDataList \in ShaperImageLists, model \in ModelNames :
    Shape(imageDataList, model)

SpecShaper == Init /\ [][NextShaper]_vars

\* failures of the invocations explored for the backoff delays
BackoffErrors == {ErrBadRequest, ErrRateLimit, ErrConnReset, ErrToken}

\* Invocations with more attempts than the callers ask for, one image,
\* gemini-2.5-pro asked.
NextBackoff ==
  \/ \E r \in Sequential, isDebug \in BOOLEAN :
       Call(r, Pro25, Descending(1), isDebug, DeepRetries)
  \/ \E r \in Sequential : Succeed(r)
  \/ \E r \in Sequential, e \in BackoffErrors : Fail(r, e)
  \/ \E r \in Sequential : BackoffDone(r)

SpecBackoff == Init /\ [][NextBackoff]_vars

\* the provider answers a request in flight, one way or the other
ProviderReturns ==
  \E r \in Sequential :
    Succeed(r) \/ \E e \in ProviderErrors \cup {ErrCanceled} : Fail(r, e)

\* the timer of a backoff delay fires
TimerFires == \E r \in Sequential : BackoffDone(r)

\* image lists of the invocations explored for termination
TerminationImageLists == {Descending(1), Descending(3)}

\* Every caller's invocation, with every failure, on short image lists.
NextTermination ==
  \/ \E r \in Sequential, modelName \in RequestedNames,
        imageDataList \in TerminationImageLists, isDebug \in BOOLEAN,
        maxRetries \in 1..MaxRetriesBound :
       Call(r, modelName, imageDataList, isDebug, maxRetries)
  \/ ProviderReturns
  \/ TimerFires
  \/ \E r \in Sequential : Abort(r)

\* Every provider call returns and every timer fires.
SpecTermination ==
  Init /\ [][NextTermination]_vars
       /\ WF_vars(ProviderReturns) /\ WF_vars(TimerFires)

(* --------------------------- result messages --------------------------- *)

MsgCanceled == "Processing was canceled by the user."

MsgNoProblemInfo == "No problem info available"

MsgGeminiRateLimit ==
  "Gemini API rate limit exceeded. Please wait a moment and try again."

MsgGeminiExtractTooLarge ==
  "Content too large for Gemini. Try using fewer or smaller screenshots."

MsgGeminiExtractFailed ==
  "Failed to process with Gemini API. Please check your API key or try again later."

MsgGeminiSolutionTooLarge ==
  "Request too large for Gemini. Try simplifying the problem description."

MsgGeminiSolutionFailed ==
  "Failed to generate solution with Gemini API. Please check your API key or try again later."

MsgGeminiMaxTokens ==
  "Gemini could not generate a full solution due to token limits. Try a different model or reduce prompt complexity."

MsgGeminiDebugTooLarge ==
  "Debug request too large for Gemini. Try using fewer screenshots or switch to a different model."

MsgGeminiDebugImages ==
  "Too many debug images for Gemini. Try reducing the number of screenshots."

MsgGeminiDebugFailed ==
  "Failed to process debug request with Gemini API. Please check your API key or try again later."

MsgParseFailed ==
  "Failed to parse problem information. Please try again or use clearer screenshots."

MsgAnthropicTooLarge ==
  "Your screenshots contain too much information for Claude to process. Try these solutions: ... 3. Switch to OpenAI or Gemini models in Settings (they can handle larger inputs) ..."

MsgAnthropicExtractFailed ==
  "Failed to process with Anthropic API. Please check your API key or try again later."

MsgClaudeRateLimit ==
  "Claude API rate limit exceeded. Please wait a few minutes before trying again."

MsgClaudeSwitch ==
  "Your screenshots contain too much information for Claude to process. Switch to OpenAI or Gemini in settings which can handle larger inputs."

MsgAnthropicSolutionFailed ==
  "Failed to generate solution with Anthropic API. Please check your API key or try again later."

MsgAnthropicDebugFailed ==
  "Failed to process debug request with Anthropic API. Please check your API key or try again later."

\* result.error includes "API Key", "OpenAI" or "Gemini" (line 771), read
\* off the texts above and the texts of the SDK errors below
MentionsKeyOrProvider(msg) ==
  msg \in {MsgGeminiRateLimit, MsgGeminiExtractTooLarge, MsgGeminiExtractFailed,
           MsgGeminiSolutionTooLarge, MsgGeminiSolutionFailed, MsgGeminiMaxTokens,
           MsgGeminiDebugTooLarge, MsgGeminiDebugImages, MsgGeminiDebugFailed,
           MsgAnthropicTooLarge, MsgClaudeSwitch,
           "<SDK error text naming OpenAI>"}

\* An error thrown by the OpenAI or Anthropic SDK call.  These errors carry
\* status, not response (line 1457 reads error.status); words are the
\* phrases of error.message the code tests; text is error.message.
SdkErr(status, words, text) == [status |-> status, words |-> words, text |-> text]

SdkRateLimit == SdkErr(429, {}, "<SDK error text, status 429>")

SdkTooLarge == SdkErr(413, {"too large"}, "<SDK error text, status 413>")

SdkTokens == SdkErr(400, {"token"}, "<SDK error text about tokens>")

SdkOther == SdkErr(500, {}, "<SDK error text naming OpenAI>")

SdkErrors == {SdkRateLimit, SdkTooLarge, SdkTokens, SdkOther}

\* The inner catch of the Gemini branch of each helper (lines 1101-1124,
\* 1398-1421, 1760-1787), for the error e thrown inside the try.
GeminiCatchMessage(stage, e) ==
  IF e.status = 429 THEN MsgGeminiRateLimit
  ELSE IF e.status = 400 /\ "token" \in e.apiWords
    THEN CASE stage = "extraction" -> MsgGeminiExtractTooLarge
           [] stage = "solution"   -> MsgGeminiSolutionTooLarge
           [] OTHER                -> MsgGeminiDebugTooLarge
  ELSE IF stage = "debug" /\ e.status = 400 /\ "image" \in e.apiWords
    THEN MsgGeminiDebugImages
  ELSE CASE stage = "extraction" -> MsgGeminiExtractFailed
         [] stage = "solution"   -> MsgGeminiSolutionFailed
         [] OTHER                -> MsgGeminiDebugFailed

\* The error text an SDK error ends in, per provider and stage (openai:
\* the outer catch blocks, lines 1224-1256, 1559-1581, 1907-1910, where
\* error.response is undefined; anthropic: lines 1164-1178, 1454-1473,
\* 1841-1855).
SdkCatchMessage(provider, stage, e) ==
  IF provider = "openai" THEN e.text
  ELSE IF stage = "solution"
    THEN IF e.status = 429 THEN MsgClaudeRateLimit
         ELSE IF e.status = 413 \/ "token" \in e.words THEN MsgClaudeSwitch
         ELSE MsgAnthropicSolutionFailed
  ELSE IF "too large" \in e.words THEN MsgAnthropicTooLarge
  ELSE IF stage = "extraction" THEN MsgAnthropicExtractFailed
  ELSE MsgAnthropicDebugFailed

\* What a response body that cannot be used ends in ("badJson": not JSON,
\* "empty": no candidates or no parts, "maxTokens": MAX_TOKENS and no parts).
BadBodyMessage(provider, stage, body) ==
  IF provider = "gemini"
    THEN IF stage = "solution" /\ body = "maxTokens" THEN MsgGeminiMaxTokens
         ELSE GeminiCatchMessage(stage, NoError)
  ELSE IF provider = "openai" THEN MsgParseFailed
  ELSE MsgAnthropicExtractFailed

\* the response bodies a stage can find unusable
BadBodies(provider, stage) ==
  IF provider = "gemini"
    THEN CASE stage = "extraction" -> {"badJson", "empty"}
           [] stage = "solution"   -> {"empty", "maxTokens"}
           [] OTHER                -> {"empty"}
  ELSE IF stage = "extraction" THEN {"badJson"} ELSE {}

(* ---------------------------- processScreenshots ----------------------- *)

\* The report of a finished run (lines 769-793 for the queue view, lines
\* 889-900 for the solutions view).
\* The terminal events the helper itself sends before it returns: the
\* extraction helper sends SOLUTION_SUCCESS when the solution is there
\* (lines 1211-1214); the debug helper sends none.
HelperEvents(f, success) ==
  IF f = "primary" /\ success THEN <<"SOLUTION_SUCCESS">> ELSE <<>>

\* The event processScreenshots sends for the helper's result.
ResultEvent(f, success, error) ==
  IF f = "primary"
    THEN IF success THEN "SOLUTION_SUCCESS"
         ELSE IF MentionsKeyOrProvider(error) THEN "API_KEY_INVALID"
         ELSE "INITIAL_SOLUTION_ERROR"
    ELSE IF success THEN "DEBUG_SUCCESS" ELSE "DEBUG_ERROR"

Report(f, success, error, canceled) ==
  [flow |-> f,
   kind |-> IF success THEN "success" ELSE "failure",
   error |-> error,
   canceled |-> canceled,
   event |-> ResultEvent(f, success, error),
   events |-> HelperEvents(f, success) \o <<ResultEvent(f, success, error)>>]

\* The run ends: its report is sent and the finally block clears the
\* field; the run's request and signal are gone with it.
FinishRun(f, success, error, canceled) ==
  /\ surfaced' = Report(f, success, error, canceled)
  /\ flow' = [flow EXCEPT ![f] = IdleFlow]
  /\ abortController' = [abortController EXCEPT ![f] = "null"]
  /\ inv' = [inv EXCEPT ![f] = IdleInvocation]
  /\ aborted' = [aborted EXCEPT ![f] = FALSE]

\* isDebug of the request a stage makes
StageIsDebug(stage) == stage = "debug"

\* The helper issues the provider call of a stage: through makeGeminiRequest
\* for gemini (maxRetries 3), through the SDK client otherwise.
BeginStage(f, stage, modelName, imageDataList) ==
  /\ flow' = [flow EXCEPT ![f] = [stage |-> stage, via |-> apiProvider]]
  /\ inv' = IF apiProvider = "gemini"
              THEN LET images == IF stage = "solution" THEN <<>> ELSE imageDataList
                       model == getGeminiModelConfig(GEMINI_MODEL_CONFIGS, modelName,
                                                     Len(images), StageIsDebug(stage))
                       optimized == optimizeImagesForGemini(images,
                                                            GEMINI_MODEL_CONFIGS[model])
                   IN  [inv EXCEPT ![f] =
                          EnterRequest(GEMINI_MODEL_CONFIGS, modelName,
                                       BuildParts(optimized), DefaultMaxRetries,
                                       StageIsDebug(stage))]
              ELSE inv
  /\ UNCHANGED <<surfaced, abortController, aborted>>

\* processScreenshots (lines 664-745, 819-870): a new AbortController for
\* the view's flow, then the screenshots are read.
ProcessScreenshots(f) ==
  /\ flow[f].stage = "idle"
  /\ flow' = [flow EXCEPT ![f] = [stage |-> "loading", via |-> "none"]]
  /\ abortController' = [abortController EXCEPT ![f] = "live"]
  /\ aborted' = [aborted EXCEPT ![f] = FALSE]
  /\ surfaced' = NothingSurfaced
  /\ UNCHANGED <<GEMINI_MODEL_CONFIGS, inv, shaped, componentVars, apiProvider, problemInfo>>

\* The helper starts (lines 919-1067, 1584-1727): the queue view extracts
\* the problem, the solutions view debugs and needs the problem info.
StartHelper(f, modelName, imageDataList) ==
  /\ flow[f].stage = "loading"
  /\ IF f = "extra" /\ problemInfo = "null"
       THEN FinishRun(f, FALSE, MsgNoProblemInfo, FALSE)
       ELSE BeginStage(f, IF f = "primary" THEN "extraction" ELSE "debug",
                       modelName, imageDataList)
  /\ UNCHANGED <<GEMINI_MODEL_CONFIGS, shaped, componentVars, apiProvider, problemInfo>>

\* The stage's provider call came back usable: extraction stores the
\* problem info and goes on to the solution (lines 1190-1200), the other
\* stages end the run with success.
StageSucceeded(f, modelName) ==
  IF flow[f].stage = "extraction"
    THEN /\ problemInfo' = "set"
         /\ BeginStage(f, "solution", modelName, <<>>)
    ELSE /\ FinishRun(f, TRUE, "", FALSE)
         /\ UNCHANGED problemInfo

\* makeGeminiRequest returned or threw to the helper.
GeminiRequestDone(f, body, modelName) ==
  /\ flow[f].via = "gemini"
  /\ inv[f].pc \in {"returned", "threw"}
  /\ body \in {"ok"} \cup BadBodies("gemini", flow[f].stage)
  /\ IF inv[f].pc = "threw"
       THEN /\ FinishRun(f, FALSE, GeminiCatchMessage(flow[f].stage, inv[f].thrown),
                         inv[f].thrown.cancel)
            /\ UNCHANGED problemInfo
     ELSE IF body # "ok"
       THEN /\ FinishRun(f, FALSE, BadBodyMessage("gemini", flow[f].stage, body), FALSE)
            /\ UNCHANGED problemInfo
     ELSE StageSucceeded(f, modelName)
  /\ UNCHANGED <<GEMINI_MODEL_CONFIGS, shaped, componentVars, apiProvider>>

\* The SDK call of an openai or anthropic stage came back; the signal is
\* not handed to these calls (lines 1006-1011, 1154-1159).
SdkDone(f, outcome, e, modelName) ==
  /\ flow[f].via \in {"openai", "anthropic"}
  /\ outcome \in {"ok", "error"} \cup BadBodies(flow[f].via, flow[f].stage)
  /\ IF outcome = "error"
       THEN /\ FinishRun(f, FALSE, SdkCatchMessage(flow[f].via, flow[f].stage, e),
                         FALSE)
            /\ UNCHANGED problemInfo
     ELSE IF outcome # "ok"
       THEN /\ FinishRun(f, FALSE, BadBodyMessage(flow[f].via, flow[f].stage, outcome),
                         FALSE)
            /\ UNCHANGED problemInfo
     ELSE StageSucceeded(f, modelName)
  /\ UNCHANGED <<GEMINI_MODEL_CONFIGS, shaped, componentVars, apiProvider>>

\* cancelOngoingRequests (lines 1913-1937): every controller held in a
\* field is aborted and the field cleared; the problem info is dropped.
CancelOngoingRequests ==
  /\ aborted' = [f \in Flows |-> aborted[f] \/ abortController[f] = "live"]
  /\ abortController' = [f \in Flows |-> "null"]
  /\ problemInfo' = "null"
  /\ UNCHANGED <<GEMINI_MODEL_CONFIGS, inv, shaped, componentVars, apiProvider, flow, surfaced>>

\* The user saves another provider in the settings.
UpdateConfig(provider) ==
  /\ provider # apiProvider
  /\ apiProvider' = provider
  /\ UNCHANGED <<GEMINI_MODEL_CONFIGS, inv, aborted, shaped, componentVars, flow, surfaced,
                 abortController, problemInfo>>

\* screenshot lists of the runs of processScreenshots
FlowImageLists == {Descending(n) : n \in {1, 3}}

\* the model names the settings hold in these runs
FlowModelNames == {Pro25, Flash25}

\* Runs of processScreenshots, one at a time, with the settings changing
\* and the reset shortcut pressed at any moment.
NextFlows ==
  \/ \E f \in Flows :
       /\ \A g \in Flows : flow[g].stage = "idle"
       /\ ProcessScreenshots(f)
  \/ \E f \in Flows, modelName \in FlowModelNames, imageDataList \in FlowImageLists :
       StartHelper(f, modelName, imageDataList)
  \/ \E f \in Flows : Succeed(f)
  \/ \E f \in Flows, e \in ProviderErrors \cup {ErrCanceled} : Fail(f, e)
  \/ \E f \in Flows : BackoffDone(f)
  \/ \E f \in Flows, body \in {"ok", "badJson", "empty", "maxTokens"},
        modelName \in FlowModelNames :
       GeminiRequestDone(f, body, modelName)
  \/ \E f \in Flows, outcome \in {"ok", "badJson", "error"}, e \in SdkErrors,
        modelName \in FlowModelNames :
       SdkDone(f, outcome, e, modelName)
  \/ /\ \A f \in Flows : inv[f].pc \notin {"returned", "threw"}
     /\ CancelOngoingRequests
  \/ \E provider \in Providers : UpdateConfig(provider)

SpecFlows == Init /\ [][NextFlows]_vars

(* ------------------------------- selector ------------------------------ *)

\* A caller asks getGeminiModelConfig for the profile of a request.
Select(modelName, imageCount, isDebug) ==
  /\ selected' = [modelName |-> modelName, imageCount |-> imageCount,
                  isDebug |-> isDebug,
                  config |-> getGeminiModelConfig(GEMINI_MODEL_CONFIGS, modelName,
                                                  imageCount, isDebug)]
  /\ UNCHANGED <<parse, settingsVars, executorVars, flowVars, storeVars, runVars>>

NextSelector ==
  \E modelName \in RequestedNames, imageCount \in 0..MaxRawImages,
     isDebug \in BOOLEAN :
    Select(modelName, imageCount, isDebug)

SpecSelector == Init /\ [][NextSelector]_vars

(* --------------------------- solution store ---------------------------- *)

\* A new ProcessingHelper is constructed (lines 120-137): the field starts
\* as [] and loadPreviousSolutions reads the file.
Construct ==
  /\ previousSolutions' = loadPreviousSolutions(debugFile, JsArray(<<>>))
  /\ session' = [instance |-> session.instance + 1, loaded |-> debugFile,
                  recorded |-> <<>>]
  /\ lastOp' = LoadOp
  /\ UNCHANGED <<parse, settingsVars, debugFile, now, executorVars, flowVars, selected, runVars>>

\* storeSolutionAttempt (lines 411-426) with savePreviousSolutions (lines
\* 399-406).  On a field that holds no array, unshift is not a function and
\* the TypeError leaves the method before anything is written.
StoreSolutionAttempt(solution, outcome) ==
  /\ IF previousSolutions.type = "array"
       THEN /\ previousSolutions' =
                 JsArray(KeepNewest(Unshift(previousSolutions.items,
                                            NewSolution(solution, now))))
            /\ debugFile' = savePreviousSolutions(debugFile, previousSolutions',
                                                  outcome)
            /\ lastOp' = StoreOp("record", SaveRaises(outcome), outcome,
                                 solution.problem_statement, 0, <<>>, <<>>, <<>>)
       ELSE /\ UNCHANGED <<previousSolutions, debugFile>>
            /\ lastOp' = StoreOp("record", TRUE, "none",
                                 solution.problem_statement, 0, <<>>, <<>>, <<>>)
  /\ session' = [session EXCEPT
                   !.recorded = Append(@, [solution |-> solution, at |-> now])]
  /\ now' = now + 1
  /\ UNCHANGED <<parse, settingsVars, executorVars, flowVars, selected, runVars>>

\* getPreviousSolutions(problemStatement, limit) (lines 431-435); filter is
\* not a function on a field that holds no array.
GetPreviousSolutions(problemStatement, limit) ==
  /\ lastOp' =
       IF previousSolutions.type = "array"
         THEN StoreOp("query", FALSE, "none", problemStatement, limit,
                      getPreviousSolutions(previousSolutions.items,
                                           problemStatement, limit), <<>>, <<>>)
         ELSE StoreOp("query", TRUE, "none", problemStatement, limit, <<>>, <<>>, <<>>)
  /\ UNCHANGED <<parse, settingsVars, previousSolutions, debugFile, now, session, executorVars,
                 flowVars, selected, runVars>>

\* The debug helper builds its prompt (lines 1609-1616, 1628-1634): the
\* stored solutions of the problem with the default limit, the generic
\* failure and the placeholder for the current code.
BuildDebugPrompt(problemStatement) ==
  /\ lastOp' =
       IF previousSolutions.type = "array"
         THEN LET solutions == getPreviousSolutions(previousSolutions.items,
                                                    problemStatement, DefaultLimit)
              IN  StoreOp("debugPrompt", FALSE, "none", problemStatement,
                          DefaultLimit, solutions,
                          <<generateEnhancedDebugPrompt(problemStatement, "python",
                                                        CodePlaceholder, solutions,
                                                        GenericFailures)>>,
                          GenericFailures)
         ELSE StoreOp("debugPrompt", TRUE, "none", problemStatement,
                      DefaultLimit, <<>>, <<>>, GenericFailures)
  /\ UNCHANGED <<parse, settingsVars, previousSolutions, debugFile, now, session, executorVars,
                 flowVars, selected, runVars>>

\* limits a caller passes
QueryLimits == {2, StaleCount}

IsOtherProblem(sol) == sol.problem_statement # ProblemTwoSum

\* the working solutions the instance was asked to store
RecordedWorking ==
  {i \in 1..Len(session.recorded) : IsWorking(session.recorded[i].solution)}

\* the attempts at the other problem the instance was asked to store
RecordedOther ==
  {i \in 1..Len(session.recorded) : IsOtherProblem(session.recorded[i].solution)}

\* the file holds what the field holds
InSync == debugFile = FileOf(JSONstringify(previousSolutions))

\* The store on its own: any start-up content of the file, then calls in
\* any order, and one restart of the application.  The first instance is
\* handed at most one working solution and at most one attempt at the
\* other problem; a write fails only when the write before it went through.
NextStore ==
  \/ /\ session.instance = 1
     /\ Construct
  \/ \E solution \in SolutionInputs, outcome \in {"written", "failed"} :
       /\ now <= StaleCount + MaxRecords
       /\ outcome = "failed" => InSync
       /\ IsWorking(solution) => session.instance = 1 /\ RecordedWorking = {}
       /\ IsOtherProblem(solution) =>
            session.instance = 1 /\ RecordedOther = {}
       /\ StoreSolutionAttempt(solution, outcome)
  \/ \E problemStatement \in Problems, limit \in QueryLimits :
       GetPreviousSolutions(problemStatement, limit)
  \/ \E problemStatement \in Problems : BuildDebugPrompt(problemStatement)

InitStore == \E file \in DurableContents : InitWith(file)

SpecStore == InitStore /\ [][NextStore]_vars

(* ------------------------ overlapping invocations ---------------------- *)

\* stages of a run during which a request of the run is with the provider
RequestStages == {"extraction", "solution", "debug"}

\* the flow a call of processScreenshots serves (lines 704-707, 817)
FlowOfView(v) == IF v = "queue" THEN "primary" ELSE "extra"

\* the runs of a flow that have a request outstanding
Outstanding(rs, f) == {run \in rs : run.flow = f /\ run.pc \in RequestStages}

\* abort() of the controllers the fields hold (lines 1917-1926)
AbortHeld(rs, fields) ==
  {[run EXCEPT !.aborted = @ \/ fields[run.flow] = run.id] : run \in rs}

\* An IPC handler calls processScreenshots (lines 664-745, 819-870; the
\* handlers are process-screenshots and trigger-process-screenshots):
\* nothing tells whether a run is under way; a new AbortController goes
\* into the field of the view's flow and the screenshots are read.
RunProcessScreenshots ==
  /\ started < MaxRuns
  /\ LET f == FlowOfView(view)
         id == started + 1
     IN  /\ runs' = runs \cup {[id |-> id, flow |-> f, pc |-> "reading",
                                aborted |-> FALSE]}
         /\ controllerField' = [controllerField EXCEPT ![f] = id]
  /\ started' = started + 1
  /\ UNCHANGED <<parse, settingsVars, view, problemInfo, executorVars, apiProvider, flow, surfaced,
                 abortController, selected, storeVars>>

\* The end of a run (lines 769-816, 883-915): the view follows the result
\* of a queue run, and the finally block clears the field of the flow.
RunFinished(run, success) ==
  /\ runs' = runs \ {run}
  /\ view' = IF run.flow = "primary"
               THEN IF success THEN "solutions" ELSE "queue"
               ELSE view
  /\ controllerField' = [controllerField EXCEPT ![run.flow] = 0]

\* The screenshots of a run are read and its helper makes the first
\* request (lines 767, 919-1067, 1584-1727); the debug helper gives up
\* when there is no problem info.
RunStartHelper(run) ==
  /\ run \in runs
  /\ run.pc = "reading"
  /\ IF run.flow = "extra" /\ problemInfo = "null"
       THEN RunFinished(run, FALSE)
       ELSE /\ runs' = (runs \ {run}) \cup
                         {[run EXCEPT !.pc = IF run.flow = "primary"
                                               THEN "extraction" ELSE "debug"]}
            /\ UNCHANGED <<view, controllerField>>
  /\ UNCHANGED <<parse, settingsVars, started, problemInfo, executorVars, apiProvider, flow, surfaced,
                 abortController, selected, storeVars>>

\* The request of a run comes back from makeGeminiRequest: with the signal
\* aborted it is the cancellation; a good extraction stores the problem
\* info and goes on to the solution request (lines 1190-1200).
RunRequestDone(run, ok) ==
  /\ run \in runs
  /\ run.pc \in RequestStages
  /\ run.aborted => ~ok
  /\ IF ok /\ run.pc = "extraction"
       THEN /\ runs' = (runs \ {run}) \cup {[run EXCEPT !.pc = "solution"]}
            /\ problemInfo' = "set"
            /\ UNCHANGED <<view, controllerField>>
       ELSE /\ RunFinished(run, ok)
            /\ UNCHANGED problemInfo
  /\ UNCHANGED <<parse, settingsVars, started, executorVars, apiProvider, flow, surfaced,
                 abortController, selected, storeVars>>

\* The trigger-reset handler: cancelOngoingRequests (lines 1914-1937)
\* aborts the controller in each field and clears the fields and the
\* problem info, then the handler sets the view to the queue.
TriggerReset ==
  /\ runs' = AbortHeld(runs, controllerField)
  /\ controllerField' = [f \in Flows |-> 0]
  /\ problemInfo' = "null"
  /\ view' = "queue"
  /\ UNCHANGED <<parse, settingsVars, started, executorVars, apiProvider, flow, surfaced,
                 abortController, selected, storeVars>>

NextRuns ==
  \/ RunProcessScreenshots
  \/ \E run \in runs : RunStartHelper(run)
  \/ \E run \in runs, ok \in BOOLEAN : RunRequestDone(run, ok)
  \/ TriggerReset

SpecRuns == Init /\ [][NextRuns]_vars

(* ----------------------------- debug prompt ---------------------------- *)

\* A failed attempt stored without the optional fields.
BareAttempt(problem) ==
  [code |-> CodeAttempt, success |-> FALSE, language |-> "python",
   problem_statement |-> problem]

\* the entries the solution lists are made of
PromptEntries ==
  {NewSolution(DebugAttempt(ProblemTwoSum), 1),
   NewSolution(BareAttempt(ProblemTwoSum), 2),
   NewSolution(WorkingSolution(ProblemTwoSum), 3)}

PromptSolutionLists ==
  UNION {[1..n -> PromptEntries] : n \in 0..MaxPromptSolutions}

\* generateEnhancedDebugPrompt is called with a list of solutions and a
\* list of failed test cases.
GenerateEnhancedDebugPrompt(solutions, failedTestCases) ==
  /\ lastOp' = StoreOp("prompt", FALSE, "none", ProblemTwoSum, 0, solutions,
                       <<generateEnhancedDebugPrompt(ProblemTwoSum, "python",
                                                     CodePlaceholder, solutions,
                                                     failedTestCases)>>,
                       failedTestCases)
  /\ UNCHANGED <<parse, settingsVars, previousSolutions, debugFile, now, session, executorVars,
                 flowVars, selected, runVars>>

NextPrompt ==
  \E solutions \in PromptSolutionLists, failedTestCases \in {<<>>, GenericFailures} :
    GenerateEnhancedDebugPrompt(solutions, failedTestCases)

SpecPrompt == Init /\ [][NextPrompt]_vars

(* ------------------------ debug helper, at its end -------------------- *)

\* The debug helper got its response (lines 1866-1907): the code is taken
\* from it, stored as a failed attempt when there is some, and the helper
\* returns success.
FinishDebug(problem, debugContent, outcome) ==
  LET extractedCode == extractDebugCode(debugContent)
  IN  IF extractedCode # <<>> /\ extractedCode # DebugPlaceholderCode
        THEN StoreSolutionAttempt(DebugEntry(problem, extractedCode), outcome)
        ELSE /\ lastOp' = StoreOp("debug", FALSE, "none", problem, 0, <<>>, <<>>,
                                  GenericFailures)
             /\ UNCHANGED <<parse, settingsVars, previousSolutions, debugFile, now, session,
                            executorVars, flowVars, selected, runVars>>

\* The application as far as the store goes: debug runs that build their
\* prompt and later end with a response, and one restart.
NextDebug ==
  \/ \E debugContent \in DebugResponses, outcome \in {"written", "failed"} :
       /\ now <= StaleCount + MaxRecords
       /\ FinishDebug(ProblemTwoSum, debugContent, outcome)
  \/ BuildDebugPrompt(ProblemTwoSum)
  \/ /\ session.instance = 1
     /\ Construct

SpecDebug == Init /\ [][NextDebug]_vars

(* --------------------------- response parser -------------------------- *)

\* The helper takes the code out of the response it received (lines
\* 1476-1492, 2431-2447).
ParseResponse ==
  /\ ~parse.done
  /\ parse' = [parse EXCEPT !.code = extractCode(parse.content), !.done = TRUE]
  /\ UNCHANGED <<executorVars, flowVars, selected, storeVars, runVars, settingsVars>>

InitParser ==
  \E responseContent \in Responses :
    InitState(FileAbsent, [NoResponse EXCEPT !.content = responseContent])

NextParser == ParseResponse

SpecParser == InitParser /\ [][NextParser]_vars

(* ------------------------- speech recognition -------------------------- *)

\* ipcMain.handle("start-speech-recognition") (lines 2794-2814); the
\* renderer's speechRecognitionService.start() then starts or fails.
StartSpeechRecognition(mainWindow, starts) ==
  /\ speech.calls < MaxSpeechCalls
  /\ speech' =
       IF mainWindow = "null"
       THEN [speech EXCEPT !.calls = @ + 1,
               !.reply = Reply("start-speech-recognition", FALSE,
                               "Main window not available")]
       ELSE IF speech.isListening
       THEN [speech EXCEPT !.calls = @ + 1,
               !.reply = Reply("start-speech-recognition", FALSE,
                               "Speech recognition already active")]
       ELSE [speech EXCEPT !.calls = @ + 1, !.isListening = TRUE,
               !.recognizing = starts,
               !.reply = Reply("start-speech-recognition", TRUE, "none")]
  /\ UNCHANGED <<executorVars, flowVars, selected, storeVars, runVars, parse,
                 configFile, keyCall>>

\* ipcMain.handle("stop-speech-recognition") (lines 2816-2834): the two
\* stop messages end the recognition in the renderer.
StopSpeechRecognition(mainWindow) ==
  /\ speech.calls < MaxSpeechCalls
  /\ speech' =
       IF mainWindow = "null"
       THEN [speech EXCEPT !.calls = @ + 1,
               !.reply = Reply("stop-speech-recognition", FALSE,
                               "Main window not found")]
       ELSE [speech EXCEPT !.calls = @ + 1, !.recognizing = FALSE,
               !.reply = Reply("stop-speech-recognition", TRUE, "none")]
  /\ UNCHANGED <<executorVars, flowVars, selected, storeVars, runVars, parse,
                 configFile, keyCall>>

\* ipcMain.handle("speech-error-from-renderer") (lines 2873-2883): the
\* recognition reported an error, after which it goes on or has ended.
SpeechErrorFromRenderer(mainWindow, ended) ==
  /\ speech.calls < MaxSpeechCalls
  /\ speech.recognizing
  /\ speech' =
       [speech EXCEPT !.calls = @ + 1,
          !.recognizing = ~ended,
          !.isListening = IF mainWindow = "null" THEN @ ELSE FALSE,
          !.reply = Reply("speech-error-from-renderer", mainWindow # "null", "none")]
  /\ UNCHANGED <<executorVars, flowVars, selected, storeVars, runVars, parse,
                 configFile, keyCall>>

NextSpeech ==
  \/ \E mainWindow \in MainWindows, starts \in BOOLEAN :
       StartSpeechRecognition(mainWindow, starts)
  \/ \E mainWindow \in MainWindows : StopSpeechRecognition(mainWindow)
  \/ \E mainWindow \in MainWindows, ended \in BOOLEAN :
       SpeechErrorFromRenderer(mainWindow, ended)

SpecSpeech == Init /\ [][NextSpeech]_vars

(* ------------------------------ API keys ------------------------------- *)

\* ConfigHelper.updateConfig (lines 773-835) for an update of the key, the
\* provider and the extraction model.
updateConfig(updates) ==
  LET currentConfig == configFile
      autoDetect == Truthy(updates.apiKey) /\ updates.apiProvider = Undefined
      provider ==
        IF autoDetect THEN updateConfigProvider(updates.apiKey.value)
        ELSE IF updates.apiProvider # Undefined THEN updates.apiProvider
        ELSE currentConfig.apiProvider
      newProvider == IF autoDetect THEN provider ELSE updates.apiProvider
      changing == newProvider # Undefined /\ newProvider # currentConfig.apiProvider
      extractionModel ==
        IF changing THEN DefaultModel(newProvider) ELSE updates.extractionModel
      otherModel == IF changing THEN DefaultModel(newProvider) ELSE Undefined
      Merge(old, new) ==
        IF new = Undefined THEN old ELSE sanitizeModelSelection(new, provider)
  IN  /\ configFile' =
           [apiKey |-> IF updates.apiKey.given THEN updates.apiKey.value
                       ELSE currentConfig.apiKey,
            apiProvider |-> IF newProvider # Undefined THEN newProvider
                            ELSE currentConfig.apiProvider,
            extractionModel |-> Merge(currentConfig.extractionModel, extractionModel),
            solutionModel |-> Merge(currentConfig.solutionModel, otherModel),
            debuggingModel |-> Merge(currentConfig.debuggingModel, otherModel)]
      /\ keyCall' = [keyCall EXCEPT !.op = "updateConfig",
                       !.argument = updates.apiKey.value,
                       !.given = updates.apiProvider, !.auto = autoDetect,
                       !.provider = provider, !.result = TRUE]
      /\ UNCHANGED <<executorVars, flowVars, selected, storeVars, runVars, parse,
                     speech>>

\* ConfigHelper.isValidApiKeyFormat (lines 853-881)
IsValidApiKeyFormat(apiKey, given) ==
  LET provider == IF given = Undefined THEN isValidApiKeyFormatProvider(apiKey)
                  ELSE given
  IN  /\ keyCall' = [keyCall EXCEPT !.op = "isValidApiKeyFormat",
                       !.argument = apiKey, !.given = given,
                       !.auto = (given = Undefined), !.provider = provider,
                       !.result = FormatValid(apiKey, provider)]
      /\ UNCHANGED <<executorVars, flowVars, selected, storeVars, runVars, parse,
                     speech, configFile>>

\* ConfigHelper.testApiKey (lines 931-956); the provider's answer to the
\* test request is valid or not.
TestApiKey(apiKey, given, valid) ==
  LET provider == IF given = Undefined THEN testApiKeyProvider(apiKey) ELSE given
  IN  /\ keyCall' = [keyCall EXCEPT !.op = "testApiKey",
                       !.argument = apiKey, !.given = given,
                       !.auto = (given = Undefined), !.provider = provider,
                       !.result = valid]
      /\ UNCHANGED <<executorVars, flowVars, selected, storeVars, runVars, parse,
                     speech, configFile>>

\* the updates a settings dialog sends for the key entered
KeyUpdates ==
  [apiKey : {NotGiven, Given(<<>>), Given(keyCall.apiKey)},
   apiProvider : {Undefined} \cup Providers,
   extractionModel : {Undefined, "gpt-4o-mini", "o1"}]

InitConfig == \E apiKey \in ApiKeys : InitKey(FileAbsent, NoResponse, apiKey)

NextConfig ==
  \/ \E updates \in KeyUpdates : updateConfig(updates)
  \/ \E given \in {Undefined} \cup Providers :
       IsValidApiKeyFormat(keyCall.apiKey, given)
  \/ \E given \in {Undefined} \cup Providers, valid \in BOOLEAN :
       TestApiKey(keyCall.apiKey, given, valid)

SpecConfig == InitConfig /\ [][NextConfig]_vars

(* ------------------------------ properties ----------------------------- *)

\* r's step is the catch block of a failed attempt
FailStep(r) ==
  inv[r].pc = "inflight" /\ inv'[r].attempt = inv[r].attempt + 1

AuthQuotaErrors == {e \in ProviderErrors : e.status \in {401, 429}}

\* C1: an invocation all of whose provider calls fail ends by throwing
\* after exactly maxRetries calls: it never throws after fewer calls, it
\* never issues more than maxRetries calls, and only a successful response
\* makes it return.
ExactlyMaxAttempts ==
  \A r \in Flows :
    /\ inv[r].calls <= inv[r].maxRetries
    /\ inv[r].pc = "threw" =>
         inv[r].calls = inv[r].maxRetries /\ inv[r].attempt = inv[r].calls
    /\ inv[r].pc = "returned" => inv[r].attempt < inv[r].calls
    /\ inv[r].pc \in {"inflight", "backoff"} => inv[r].attempt < inv[r].maxRetries

\* C1 witness: three token-limit or network failures in a row ended the
\* default three-attempt invocation.
ExactlyMaxAttemptsWitness ==
  \E r \in Flows :
    /\ inv[r].pc = "threw"
    /\ inv[r].maxRetries = DefaultMaxRetries
    /\ inv[r].calls = DefaultMaxRetries
    /\ inv[r].lastAction \in {"halveTokens", "halveImages", "throw"}
    /\ IsTokenLimitError(inv[r].lastError) \/ IsNetworkError(inv[r].lastError)

\* C2: once the signal is aborted, the next thing the invocation does is to
\* leave the loop: no further provider call and no backoff delay.
CancelLeavesLoopAtOnce ==
  [][\A r \in Flows :
       (aborted[r] /\ inv[r].pc \in {"inflight", "backoff"} /\ inv'[r] # inv[r])
         => (inv'[r].pc = "threw" /\ inv'[r].calls = inv[r].calls)]_vars

\* C4: an HTTP 401 or 429 rejection is thrown to the caller by the attempt
\* that received it.
AuthQuotaPropagatesAtOnce ==
  [][\A r \in Flows :
       (FailStep(r) /\ inv'[r].lastError \in AuthQuotaErrors)
         => (inv'[r].pc = "threw" /\ inv'[r].thrown = inv'[r].lastError)]_vars

\* C4 (amended): an HTTP 401 or 429 rejection is retried unchanged after
\* the backoff delay while attempts remain, and is thrown to the caller
\* only by the maxRetries-th attempt.
AuthQuotaRetriedUntilExhausted ==
  [][\A r \in Flows :
       (FailStep(r) /\ inv'[r].lastError \in AuthQuotaErrors)
         => IF inv'[r].attempt < inv[r].maxRetries
              THEN /\ inv'[r].pc = "backoff"
                   /\ inv'[r].delay > 0
                   /\ inv'[r].calls = inv[r].calls
                   /\ inv'[r].currentModel = inv[r].currentModel
                   /\ inv'[r].parts = inv[r].parts
                   /\ GEMINI_MODEL_CONFIGS' = GEMINI_MODEL_CONFIGS
              ELSE /\ inv'[r].pc = "threw"
                   /\ inv'[r].thrown = inv'[r].lastError
                   /\ inv'[r].calls = inv[r].maxRetries]_vars

\* C4 witness: a 401 or 429 rejection left the invocation in its backoff
\* delay, about to try again.
AuthQuotaRetriedWitness ==
  \E r \in Flows :
    /\ inv[r].pc = "backoff"
    /\ inv[r].lastError \in AuthQuotaErrors
    /\ inv[r].attempt < inv[r].maxRetries

\* C5: the error thrown when the attempts are exhausted is the provider
\* error of the last attempt.
ExhaustedThrowsLastError ==
  \A r \in Flows : inv[r].pc = "threw" => inv[r].thrown = inv[r].lastError

\* C6: every request sent to the provider carries an output-token budget
\* of at least the floor, in every attempt of every invocation.
BudgetAtLeastFloor ==
  /\ \A r \in Flows :
       inv[r].pc = "inflight" => inv[r].sent.maxOutputTokens >= TokenFloor
  /\ \A m \in ModelNames : GEMINI_MODEL_CONFIGS[m].maxOutputTokens >= TokenFloor

\* C6 witness: a request of gemini-2.5-pro goes out with the floor budget
\* right after a halving (2500 halves to 1250, raised to 2048).
BudgetAtLeastFloorWitness ==
  \E r \in Flows :
    /\ inv[r].pc = "inflight"
    /\ inv[r].lastAction = "halveTokens"
    /\ inv[r].sent.model = Pro25
    /\ inv[r].sent.maxOutputTokens = TokenFloor

\* C7: a token-limit rejection received with the budget at the floor and
\* attempts remaining lowers no budget; the invocation goes on with
\* gemini-2.5-flash, and its next request names that model.
FloorRejectionFallsBackToFlash ==
  [][\A r \in Flows :
       /\ (/\ FailStep(r)
           /\ IsTokenLimitError(inv'[r].lastError)
           /\ GEMINI_MODEL_CONFIGS[inv[r].currentModel].maxOutputTokens = TokenFloor
           /\ inv'[r].attempt < inv[r].maxRetries)
            => /\ GEMINI_MODEL_CONFIGS' = GEMINI_MODEL_CONFIGS
               /\ inv'[r].pc \in {"inflight", "backoff"}
               /\ inv'[r].currentModel = Flash25
               /\ inv'[r].pc = "inflight" => inv'[r].sent.model = Flash25
       /\ (inv[r].pc = "backoff" /\ inv'[r].pc = "inflight")
            => inv'[r].sent.model = inv[r].currentModel]_vars

\* C7 witness: the fallback branch was taken and the next request is out
\* on gemini-2.5-flash.
FloorRejectionFallbackWitness ==
  \E r \in Flows :
    /\ inv[r].pc = "inflight"
    /\ inv[r].lastAction = "tokenFallback"
    /\ inv[r].sent.model = Flash25

\* C8: the model table always equals the table defined at process start.
RegistryImmutable == GEMINI_MODEL_CONFIGS = RegisteredProfiles

\* C9: the first request of every invocation carries the registered
\* maximum output tokens of the model it names, whatever earlier
\* invocations did.
FirstAttemptUsesRegisteredMax ==
  \A r \in Flows :
    (inv[r].pc = "inflight" /\ inv[r].calls = 1)
      => inv[r].sent.maxOutputTokens
           = RegisteredProfiles[inv[r].sent.model].maxOutputTokens

\* C10: the shaper returns the first min(length, imageLimit) images of its
\* input in their order, and the caller's list is what it was.
ShaperKeepsPrefix ==
  shaped.model \in ModelNames =>
    LET limit == RegisteredProfiles[shaped.model].imageLimit
        kept  == Min(Len(shaped.input), limit)
    IN  /\ Len(shaped.output) = kept
        /\ \A k \in 1..kept : shaped.output[k] = shaped.input[k]
        /\ Len(shaped.input) > limit => Len(shaped.output) = limit
        /\ shaped.callerList = shaped.input

\* C10 witness: a list longer than the ceiling, not in ascending order, was
\* cut to exactly the ceiling.
ShaperKeepsPrefixWitness ==
  /\ shaped.model = Flash25
  /\ Len(shaped.input) > RegisteredProfiles[Flash25].imageLimit
  /\ shaped.input[1] > shaped.input[2]
  /\ Len(shaped.output) = RegisteredProfiles[Flash25].imageLimit

\* C11: getGeminiModelConfig returns the result of the first rule that
\* matches: gemini-2.5-pro for a debug request with more than 5 images and
\* a flash profile asked for; else gemini-2.5-pro when the images are more
\* than the asked profile takes and no more than gemini-2.5-pro takes; else
\* the asked profile, which is gemini-2.5-pro for a name not in the table.
SelectorFirstMatchingRule ==
  selected.modelName # "" =>
    LET requested == IF selected.modelName \in DOMAIN RegisteredProfiles
                       THEN RegisteredProfiles[selected.modelName]
                       ELSE RegisteredProfiles[Pro25]
        thorough == RegisteredProfiles[Pro25]
        rule1 == selected.isDebug /\ selected.imageCount > 5 /\ requested.isFlash
        rule2 == /\ selected.imageCount > requested.imageLimit
                 /\ selected.imageCount <= thorough.imageLimit
    IN  GEMINI_MODEL_CONFIGS[selected.config] =
          IF rule1 THEN thorough ELSE IF rule2 THEN thorough ELSE requested

\* C11 witness: more images than even gemini-2.5-pro takes, so the flash
\* profile asked for is what comes back.
SelectorFirstMatchingRuleWitness ==
  /\ selected.modelName = Flash25
  /\ ~selected.isDebug
  /\ selected.imageCount > RegisteredProfiles[Pro25].imageLimit
  /\ selected.config = Flash25

\* the instance found nothing to load
StartedEmpty ==
  loadPreviousSolutions(session.loaded, JsArray(<<>>)) = JsArray(<<>>)

\* C12: after more than 10 calls of storeSolutionAttempt on a store that
\* started empty, the store holds exactly 10 entries, they are the last 10
\* solutions handed in, and the newest comes first.
RecordKeepsNewestTen ==
  (StartedEmpty /\ Len(session.recorded) > maxStoredSolutions) =>
    /\ previousSolutions.type = "array"
    /\ Len(previousSolutions.items) = maxStoredSolutions
    /\ \A k \in 1..maxStoredSolutions :
         LET call == session.recorded[Len(session.recorded) + 1 - k]
             entry == previousSolutions.items[k]
         IN  /\ entry.timestamp = call.at
             /\ DOMAIN entry = DOMAIN call.solution \cup {"id", "timestamp"}
             /\ \A key \in DOMAIN call.solution : entry[key] = call.solution[key]

\* C12 witness: 11 solutions were handed to a store that started empty;
\* the first is gone and the second, the attempt at the other problem, is
\* the oldest one kept.
RecordKeepsNewestTenWitness ==
  /\ StartedEmpty
  /\ Len(session.recorded) = maxStoredSolutions + 1
  /\ Len(previousSolutions.items) = maxStoredSolutions
  /\ previousSolutions.items[maxStoredSolutions].problem_statement = ProblemTwoSumII

\* C13: the field never holds more than 10 entries, whatever the file held
\* and whatever was loaded and stored.
StoreWithinCap == Len(previousSolutions.items) <= maxStoredSolutions

\* C14: getPreviousSolutions returns the first `limit` entries of the
\* store, in the order of the store, whose problem statement is the asked
\* one as a whole string, and no entry of another problem statement.
QueryReturnsExactMatches ==
  (lastOp.op = "query" /\ ~lastOp.raised) =>
    LET items == previousSolutions.items
        at == {i \in 1..Len(items) : items[i].problem_statement = lastOp.problem}
        n == Min(lastOp.limit, Cardinality(at))
        Nth(j) == CHOOSE i \in at : Cardinality({m \in at : m <= i}) = j
    IN  /\ Len(lastOp.result) = n
        /\ \A j \in 1..n : lastOp.result[j] = items[Nth(j)]
        /\ \A j \in 1..Len(lastOp.result) :
             lastOp.result[j].problem_statement = lastOp.problem

\* C14 witness: "Two Sum" was asked with limit 2 of a store whose newest
\* entry is for "Two Sum II" and that holds more than 2 entries for "Two Sum".
QueryReturnsExactMatchesWitness ==
  /\ lastOp.op = "query"
  /\ lastOp.problem = ProblemTwoSum
  /\ lastOp.limit = 2
  /\ Len(lastOp.result) = 2
  /\ Len(previousSolutions.items) > 3
  /\ previousSolutions.items[1].problem_statement = ProblemTwoSumII
  /\ previousSolutions.items[4].problem_statement = ProblemTwoSum

BadFileStartsEmpty ==
  ~IsEntryList(session.loaded) =>
    /\ Len(session.recorded) = 0 => previousSolutions = JsArray(<<>>)
    /\ ~lastOp.raised

\* C17: a call of storeSolutionAttempt whose write fails does not raise;
\* the new entry is at the head of the list, the entries behind it are the
\* old ones, and the list is no longer than 10.
FailedWriteStillRecords ==
  [][(lastOp'.op = "record" /\ lastOp'.write = "failed")
       => LET old == previousSolutions.items
              new == previousSolutions'.items
              call == session'.recorded[Len(session'.recorded)]
          IN  /\ ~lastOp'.raised
              /\ previousSolutions'.type = "array"
              /\ Len(new) = Min(Len(old) + 1, maxStoredSolutions)
              /\ new[1] = NewSolution(call.solution, now)
              /\ \A k \in 2..Len(new) : new[k] = old[k - 1]]_vars

\* C17 witness: the write of a call failed on a full store; the file is
\* behind the store.
FailedWriteStillRecordsWitness ==
  /\ lastOp.op = "record"
  /\ lastOp.write = "failed"
  /\ ~lastOp.raised
  /\ Len(previousSolutions.items) = maxStoredSolutions
  /\ Len(session.recorded) > maxStoredSolutions
  /\ ~InSync

\* C18: when exactly one stored entry of the problem has success = true,
\* the debug prompt built for the problem holds the code of that entry,
\* however many failed entries of the problem are newer.
PromptHoldsWorkingCode ==
  (lastOp.op = "debugPrompt" /\ ~lastOp.raised) =>
    LET items == previousSolutions.items
        working == {i \in 1..Len(items) :
                      /\ items[i].problem_statement = lastOp.problem
                      /\ items[i].success}
    IN  \A i \in working :
          Cardinality(working) = 1 => items[i].code \in CodesIn(lastOp.prompt[1])

\* C19: a step that aborts the signal of a run of one flow leaves every
\* request of the other flow that is outstanding and not aborted as it is.
CancelStaysInItsFlow ==
  [][\A f \in Flows :
       (\E run \in runs : /\ run.flow = f
                          /\ ~run.aborted
                          /\ [run EXCEPT !.aborted = TRUE] \in runs')
         => \A other \in runs :
              (other.flow # f /\ other.pc \in RequestStages /\ ~other.aborted)
                => other \in runs']_vars

\* C20: in every state each flow has at most one request outstanding.
AtMostOneRequestPerFlow ==
  \A f \in Flows : Cardinality(Outstanding(runs, f)) <= 1

\* failures the catch block has no recovery for
UnclassifiedErrors == {ErrBadRequest, ErrUnauthorized, ErrRateLimit}

\* the branches of the catch block that retry at once
ClassifiedRecoveries ==
  {"halveTokens", "tokenFallback", "halveImages", "networkToFlash", "networkToBackup"}

\* C23: a token-limit rejection of a request sent with a budget b above
\* 2048, with attempts remaining, is followed at once by a request to the
\* same model with the budget max(2048, floor(b / 2)).
TokenRejectionHalvesBudget ==
  [][\A r \in Flows :
       (/\ FailStep(r)
        /\ IsTokenLimitError(inv'[r].lastError)
        /\ inv[r].sent.maxOutputTokens > TokenFloor
        /\ inv'[r].attempt < inv[r].maxRetries)
         => /\ inv'[r].pc = "inflight"
            /\ inv'[r].sent.model = inv[r].sent.model
            /\ inv'[r].sent.images = inv[r].sent.images
            /\ inv'[r].sent.maxOutputTokens
                 = Max(TokenFloor, inv[r].sent.maxOutputTokens \div 2)]_vars

\* C23 witness: the budget of gemini-2.5-pro went from 2500 to the floor.
TokenRejectionHalvesBudgetWitness ==
  \E r \in Flows :
    /\ inv[r].pc = "inflight"
    /\ inv[r].lastAction = "halveTokens"
    /\ inv[r].lastError = ErrToken
    /\ inv[r].sent.model = Pro25
    /\ inv[r].sent.maxOutputTokens = TokenFloor

\* C24: an HTTP 400 whose message mentions image or media, for a request
\* with k > 1 images and attempts remaining, is followed by a request with
\* the first max(1, floor(k / 2)) images, the same model and the same budget.
ImageRejectionHalvesImages ==
  [][\A r \in Flows :
       (/\ FailStep(r)
        /\ IsImageLimitError(inv'[r].lastError)
        /\ Len(inv[r].sent.images) > 1
        /\ inv'[r].attempt < inv[r].maxRetries)
         => /\ inv'[r].pc = "inflight"
            /\ inv'[r].sent.images =
                 SubSeq(inv[r].sent.images, 1,
                        Max(1, Len(inv[r].sent.images) \div 2))
            /\ inv'[r].sent.model = inv[r].sent.model
            /\ inv'[r].sent.maxOutputTokens = inv[r].sent.maxOutputTokens]_vars

BackoffThenRetryUnchanged ==
  [][\A r \in Flows :
       /\ (/\ FailStep(r)
           /\ inv'[r].lastError \in UnclassifiedErrors
           /\ inv'[r].attempt < inv[r].maxRetries)
            => /\ inv'[r].pc = "backoff"
               /\ inv'[r].delay = Min(1000 * Pow2(inv'[r].attempt - 1), 5000)
               /\ GEMINI_MODEL_CONFIGS' = GEMINI_MODEL_CONFIGS
       /\ (inv[r].pc = "backoff" /\ inv'[r].pc = "inflight")
            => inv'[r].sent = inv[r].sent
       /\ (FailStep(r) /\ inv'[r].lastAction \in ClassifiedRecoveries)
            => inv'[r].pc # "backoff" /\ inv'[r].delay = 0]_vars

\* C26 witness: the wait after the fourth failure is at the cap.
BackoffThenRetryUnchangedWitness ==
  \E r \in Flows :
    /\ inv[r].pc = "backoff"
    /\ inv[r].attempt = 4
    /\ inv[r].delay = 5000
    /\ inv[r].lastError \in UnclassifiedErrors

\* C27: with every provider call returning, an invocation ends, by a
\* return or a throw, and it never makes more than maxRetries calls.
InvocationTerminates ==
  /\ [](\A r \in Flows : inv[r].calls <= inv[r].maxRetries)
  /\ \A r \in Flows :
       (inv[r].pc \in {"inflight", "backoff"}) ~> (inv[r].pc \in {"returned", "threw"})

\* C27 witness: an invocation ended by a throw when its third and last
\* call was refused for the quota.
InvocationTerminatesWitness ==
  \E r \in Flows :
    /\ inv[r].pc = "threw"
    /\ inv[r].calls = DefaultMaxRetries
    /\ inv[r].maxRetries = DefaultMaxRetries
    /\ inv[r].thrown = ErrRateLimit

\* C30: the images of a request are never more than the model it is sent
\* to takes.
RequestWithinImageCeiling ==
  \A r \in Flows :
    inv[r].pc = "inflight" =>
      Len(inv[r].sent.images) <= RegisteredProfiles[inv[r].sent.model].imageLimit

\* the results extraction gives for a failure of the provider call itself
TransportResults(provider) ==
  IF provider = "gemini"
    THEN {GeminiCatchMessage("extraction", e) : e \in ProviderErrors}
    ELSE {SdkCatchMessage(provider, "extraction", e) : e \in SdkErrors}

\* C21: an extraction response that is not valid JSON ends the run with a
\* result that is none of the results of a transport, quota or credential
\* failure of that provider, and the run is not reported as an API-key
\* problem.
ParseFailureIsDistinct ==
  [][\A f \in Flows, modelName \in FlowModelNames :
       (/\ flow[f].stage = "extraction"
        /\ \/ inv[f].pc = "returned" /\ GeminiRequestDone(f, "badJson", modelName)
           \/ \E e \in SdkErrors : SdkDone(f, "badJson", e, modelName))
         => /\ surfaced'.kind = "failure"
            /\ surfaced'.error \notin TransportResults(flow[f].via)
            /\ surfaced'.event # "API_KEY_INVALID"]_vars

\* C22: a response with no fenced code block and with a code marker gives
\* a non-empty code.
FallbackYieldsCode ==
  (/\ parse.done
   /\ ~codeMatch(parse.content).matched
   /\ HasCodeMarker(parse.content))
    => parse.code # <<>>

\* the headings of a prompt, in their order
HeadingsOf(prompt) == [i \in 1..Len(prompt) |-> prompt[i].name]

\* C28: after the lines that name the problem, a debug prompt has the
\* sections current code, previous working solution, failed test cases,
\* recent failed attempts and response structure, in this order; the
\* second is there exactly when a solution of the list succeeded, the third
\* exactly when the failure list is not empty, the fourth exactly when a
\* solution of the list failed, and it names at most two attempts.
PromptSectionsInOrder ==
  (lastOp.op = "prompt") =>
    LET prompt == lastOp.prompt[1]
        solutions == lastOp.result
        succeeded == \E i \in 1..Len(solutions) : solutions[i].success
        failed == {i \in 1..Len(solutions) : ~solutions[i].success}
    IN  /\ HeadingsOf(prompt) =
             <<"PROBLEM", "CURRENT CODE">>
             \o (IF succeeded THEN <<"PREVIOUS WORKING SOLUTION">> ELSE <<>>)
             \o (IF lastOp.failures # <<>> THEN <<"FAILED TEST CASES">> ELSE <<>>)
             \o (IF failed # {} THEN <<"RECENT FAILED ATTEMPTS">> ELSE <<>>)
             \o <<"RESPONSE STRUCTURE">>
        /\ \A i \in SectionsNamed(prompt, "RECENT FAILED ATTEMPTS") :
             Len(prompt[i].items) = Min(2, Cardinality(failed))
        /\ prompt[Len(prompt)].items = ResponseHeadings

\* C28 witness: a prompt with all five sections, built from a list with a
\* working solution and three failed attempts.
PromptSectionsInOrderWitness ==
  /\ lastOp.op = "prompt"
  /\ Len(lastOp.prompt[1]) = 6
  /\ Cardinality({i \in 1..Len(lastOp.result) : ~lastOp.result[i].success}) = 3
  /\ \E i \in SectionsNamed(lastOp.prompt[1], "RECENT FAILED ATTEMPTS") :
       Len(lastOp.prompt[1][i].items) = 2

\* C29: a debug flow that ends in success has put exactly one new entry
\* at the head of the store and the file holds the store.
DebugSuccessRecordsOnce ==
  [][\A debugContent \in DebugResponses, outcome \in {"written", "failed"} :
       (FinishDebug(ProblemTwoSum, debugContent, outcome) /\ ~lastOp'.raised)
         => /\ Len(previousSolutions'.items) =
                 Min(maxStoredSolutions, Len(previousSolutions.items) + 1)
            /\ previousSolutions'.items[1].timestamp = now
            /\ \A i \in 2..Len(previousSolutions'.items) :
                 previousSolutions'.items[i] = previousSolutions.items[i - 1]
            /\ debugFile' = FileOf(JSONstringify(previousSolutions'))]_vars

\* C31: from one request of an invocation to the next the output-token
\* budget sent does not grow.
BudgetNeverGrows ==
  [][\A r \in Flows :
       (/\ inv[r].pc \in {"inflight", "backoff"}
        /\ inv'[r].pc = "inflight"
        /\ inv'[r].calls = inv[r].calls + 1)
         => inv'[r].sent.maxOutputTokens <= inv[r].sent.maxOutputTokens]_vars

\* C32: the profile makeGeminiRequest selects from the message the caller
\* built out of the shaped images is the profile the caller selected from
\* the images it was given.
SelectionStableUnderShaping ==
  (selected # NoSelection) =>
    LET optimizedImages ==
          optimizeImagesForGemini(Descending(selected.imageCount),
                                  GEMINI_MODEL_CONFIGS[selected.config])
    IN  getGeminiModelConfig(GEMINI_MODEL_CONFIGS, selected.modelName,
                             ImageCountOf(BuildParts(optimizedImages)),
                             selected.isDebug) = selected.config

\* C32 witness: a debug selection that leaves the flash profile asked for,
\* with more images than the selected profile takes.
SelectionStableUnderShapingWitness ==
  /\ selected.modelName = Flash25
  /\ selected.isDebug
  /\ selected.imageCount > RegisteredProfiles[Pro25].imageLimit
  /\ selected.config = Pro25

OneTerminalEvent ==
  (surfaced.flow = "primary") =>
    /\ Len(surfaced.events) = 1
    /\ surfaced.kind = "success" => surfaced.events[1] = "SOLUTION_SUCCESS"
    /\ surfaced.kind = "failure" =>
         surfaced.events[1] \in
           {"INITIAL_SOLUTION_ERROR", "API_KEY_INVALID", "NO_SCREENSHOTS"}

\* C38: a primary run that fails on a quota, a token overflow, an
\* unparsable response or a cancellation sends INITIAL_SOLUTION_ERROR, not
\* API_KEY_INVALID, whatever the provider.
OnlyCredentialsAreKeyInvalid ==
  [][\A modelName \in FlowModelNames :
       (\/ /\ inv["primary"].pc = "threw"
           /\ \/ inv["primary"].thrown.status = 429
              \/ IsTokenLimitError(inv["primary"].thrown)
              \/ inv["primary"].thrown.cancel
           /\ GeminiRequestDone("primary", "ok", modelName)
        \/ /\ inv["primary"].pc = "returned"
           /\ flow["primary"].stage = "extraction"
           /\ GeminiRequestDone("primary", "badJson", modelName)
        \/ \E e \in {SdkRateLimit, SdkTooLarge, SdkTokens} :
             SdkDone("primary", "error", e, modelName)
        \/ \E e \in SdkErrors : SdkDone("primary", "badJson", e, modelName))
         => surfaced'.event = "INITIAL_SOLUTION_ERROR"]_vars

\* C35: once cancelOngoingRequests has aborted the signal of a run, that
\* run neither stores problem info nor ends in success.
CancelledRunHasNoEffect ==
  [][\A f \in Flows :
       (aborted[f] /\ flow[f].stage # "idle")
         => /\ ~(problemInfo = "null" /\ problemInfo' = "set")
            /\ ~(flow'[f].stage = "idle" /\ surfaced'.flow = f
                 /\ surfaced'.kind = "success")]_vars

\* C36: the field of a flow holds the controller of every run of the flow
\* that is under way and not yet aborted, so that a reset aborts it.
FieldHoldsRunningController ==
  \A run \in runs : ~run.aborted => controllerField[run.flow] = run.id

\* C37: while an invocation runs, the parts of the message its caller
\* passed stay what they were when it was called.
PayloadUnchanged ==
  [][\A r \in Flows :
       (/\ inv[r].pc \in {"inflight", "backoff"}
        /\ inv'[r].pc \in {"inflight", "backoff"})
         => inv'[r].parts = inv[r].parts]_vars

\* C39: the provider updateConfig takes from the format of a key, when no
\* provider is given, is the provider isValidApiKeyFormat and testApiKey
\* take from that key.
AutoDetectionAgrees ==
  (keyCall.op = "updateConfig" /\ keyCall.auto) =>
    /\ keyCall.provider = isValidApiKeyFormatProvider(keyCall.argument)
    /\ keyCall.provider = testApiKeyProvider(keyCall.argument)

\* C40: a start-speech-recognition call that follows a successful
\* stop-speech-recognition call succeeds when the main window is there.
StartAfterStopSucceeds ==
  [][(/\ speech.reply = Reply("stop-speech-recognition", TRUE, "none")
      /\ speech'.reply.channel = "start-speech-recognition"
      /\ speech'.reply.error # "Main window not available")
     => speech'.reply.success]_vars

\* C3: a run that ended because its signal was aborted reports the
\* canceled result, never another failure text and never API_KEY_INVALID.
CanceledRunReportsCanceled ==
  surfaced.canceled =>
    /\ surfaced.error = MsgCanceled
    /\ surfaced.event # "API_KEY_INVALID"

====
